---------------------------- MODULE Spec2Model ----------------------------
(***************************************************************************)
(* State-machine model of the static quiz trainer (src/src/App.tsx):       *)
(* the results store, its normalisation from the persisted blob, the       *)
(* session scorer, the quiz selector and the React handlers that drive     *)
(* them.                                                                   *)
(*                                                                         *)
(* Conventions                                                             *)
(*  - A JS string is a TLA+ string; a `string | null` field holds NULL for  *)
(*    the JS null.                                                         *)
(*  - questionStats, whose key order the code reads (getRetryPool), is the *)
(*    sequence of its entries in Object.entries order.  Question ids are   *)
(*    never canonical array indices, so that order is insertion order.     *)
(*    answers and feedbackByQuestionId, read by key only, are functions.   *)
(*  - An untyped JSON value (the persisted blob) is a tagged record, see    *)
(*    JNull .. JObj.                                                       *)
(*  - The wall clock is the variable clock; Date.now() reads it and        *)
(*    nowIso() formats it.                                                 *)
(***************************************************************************)
EXTENDS Integers, Sequences, FiniteSets, TLC

VARIABLES
  ALL_QUESTIONS,         \* the normalised question bank          (App.tsx:112)
  booted,                \* whether App() has mounted
  results,               \* useState<QuizResults>                 (App.tsx:518)
  themePreference,       \* useState<ThemePreference>             (App.tsx:519)
  limit,                 \* useState<number>(10)                  (App.tsx:521)
  selectedCategory,      \* useState<string>("")                  (App.tsx:522)
  retryMode,             \* useState<boolean>(false)              (App.tsx:523)
  activeQuestions,       \* useState<Question[]>([])              (App.tsx:525)
  currentIndex,          \* useState<number>(0)                   (App.tsx:526)
  answers,               \* useState<Record<string, number>>({})  (App.tsx:527)
  feedbackByQuestionId,  \* useState<Record<string, Feedback>>    (App.tsx:528)
  notice,                \* useState<string>                      (App.tsx:530)
  latestSession,         \* useState<Session | null>(null)        (App.tsx:533)
  storedResults,         \* localStorage[STORAGE_RESULTS_KEY]
  storedTheme,           \* localStorage[STORAGE_THEME_KEY]
  clock,                 \* the wall clock read by Date.now() / nowIso()
  submits                \* number of scoring calls made so far (bounds the run)

vars == <<ALL_QUESTIONS, booted, results, themePreference, limit, selectedCategory, retryMode,
          activeQuestions, currentIndex, answers, feedbackByQuestionId,
          notice, latestSession, storedResults, storedTheme, clock, submits>>

uiVars == <<limit, selectedCategory, retryMode, activeQuestions, currentIndex,
            answers, feedbackByQuestionId, latestSession>>

-----------------------------------------------------------------------------
\* Program constants

MAX_LIMIT == 100
MAX_SAVED_SESSIONS == 200
MAX_ERROR_HISTORY == 100
MASTERY_STREAK == 3
DEFAULT_LIMIT == 10

THEME_SEQUENCE == <<"system", "light", "dark">>

\* Bounds of the model

MaxClock == 1          \* the clock runs over 0..MaxClock
MaxSubmits == 2        \* scoring calls per run of the application
MaxCalls == 4          \* calls per run of the scorer harness
MaxFaultyCalls == 2    \* calls per run of the harness that also passes invalid answers

NULL == "<null>"

-----------------------------------------------------------------------------
\* Sequence helpers (the Array.prototype methods the code uses)

Range(s) == {s[i] : i \in DOMAIN s}

RECURSIVE FilterSeq(_, _)
\* Array.prototype.filter, the predicate given as the set of kept values
FilterSeq(s, keep) ==
  IF s = <<>> THEN <<>>
  ELSE IF Head(s) \in keep THEN <<Head(s)>> \o FilterSeq(Tail(s), keep)
       ELSE FilterSeq(Tail(s), keep)

\* Array.prototype.slice(-n) for n > 0
SliceLast(s, n) == IF Len(s) <= n THEN s ELSE SubSeq(s, Len(s) - n + 1, Len(s))

\* Array.prototype.slice(0, n) for n >= 0
SliceFirst(s, n) == IF Len(s) <= n THEN s ELSE SubSeq(s, 1, n)

RECURSIVE SumSeq(_)
SumSeq(s) == IF s = <<>> THEN 0 ELSE Head(s) + SumSeq(Tail(s))

Min(a, b) == IF a <= b THEN a ELSE b
Max(a, b) == IF a >= b THEN a ELSE b

\* A percentage cut instead of rounded
FloorPercent(c, t) == (100 * c) \div t

\* The pairs <<c, t>> with t <= 400 whose double (c / t) * 100 falls just
\* below the half the exact quotient lies on (23 / 40 * 100 is
\* 57.49999999999999), so that Math.round gives the lower integer
DoubleBelowHalf ==
  {<<23, 40>>, <<46, 80>>, <<69, 120>>, <<92, 160>>, <<29, 200>>, <<57, 200>>,
   <<113, 200>>, <<115, 200>>, <<138, 240>>, <<161, 280>>, <<184, 320>>,
   <<207, 360>>, <<58, 400>>, <<114, 400>>, <<226, 400>>, <<230, 400>>}

\* Math.round((c / t) * 100) for integers 0 <= c <= t, 0 < t <= 400.
\* Math.round rounds halves up; the double lies on the same side of every half
\* as the exact quotient except for the pairs of DoubleBelowHalf.
RoundPercent(c, t) ==
  IF <<c, t>> \in DoubleBelowHalf THEN (200 * c + t) \div (2 * t) - 1
  ELSE (200 * c + t) \div (2 * t)

-----------------------------------------------------------------------------
\* Time

\* new Date().toISOString() at clock value t
IsoAt(t) == "T" \o ToString(t)

nowIso == IsoAt(clock)

\* `s_${Date.now()}` at clock value t
SessionIdAt(t) == "s_" \o ToString(t)

-----------------------------------------------------------------------------
\* Ordered dictionaries: a JS object read through Object.entries

Entry(k, v) == [key |-> k, value |-> v]

Keys(d) == [i \in DOMAIN d |-> d[i].key]

KeySet(d) == {d[i].key : i \in DOMAIN d}

Has(d, k) == \E i \in DOMAIN d : d[i].key = k

Get(d, k) == d[CHOOSE i \in DOMAIN d : d[i].key = k].value

\* d[k] = v: an existing key keeps its place, a new key goes last
Put(d, k, v) ==
  IF Has(d, k)
    THEN [i \in DOMAIN d |-> IF d[i].key = k THEN Entry(k, v) ELSE d[i]]
    ELSE Append(d, Entry(k, v))

-----------------------------------------------------------------------------
\* The question bank

Question(id, category, correct) ==
  [id |-> id, question |-> "Frage " \o id,
   options |-> <<"A", "B", "C", "D">>, correct |-> correct,
   category |-> category, explanation |-> "Erklaerung " \o id]

\* A normalised bank of three questions in two categories
BankOfThree ==
  << Question("q0001", "Netzwerke", 0),
     Question("q0002", "Recht", 1),
     Question("q0003", "Netzwerke", 0) >>

\* A normalised bank of two questions in two categories
BankOfTwo == SubSeq(BankOfThree, 1, 2)

QuestionIds == {ALL_QUESTIONS[i].id : i \in DOMAIN ALL_QUESTIONS}

ThemePreferences == {"system", "light", "dark"}

isThemePreference(value) == value \in ThemePreferences

-----------------------------------------------------------------------------
\* Defaults

defaultQuestionStat ==
  [seen |-> 0, correct |-> 0, wrong |-> 0, consecutiveCorrect |-> 0,
   mastered |-> FALSE, lastResult |-> NULL, lastAnsweredAt |-> NULL]

\* defaultResults(theme) with nowIso() = timestamp
defaultResults(theme, timestamp) ==
  [createdAt |-> timestamp, updatedAt |-> timestamp, sessions |-> <<>>,
   questionStats |-> <<>>, errorPoolHistory |-> <<>>,
   preferences |-> [theme |-> theme]]

-----------------------------------------------------------------------------
\* Statistics: the retry pool

\* A retry pool that keeps mastered questions
RECURSIVE getRetryPoolWithMastered(_)
getRetryPoolWithMastered(questionStats) ==
  IF questionStats = <<>> THEN <<>>
  ELSE IF Head(questionStats).value.wrong > 0
         THEN <<Head(questionStats).key>> \o getRetryPoolWithMastered(Tail(questionStats))
         ELSE getRetryPoolWithMastered(Tail(questionStats))

RECURSIVE getRetryPool(_)
getRetryPool(questionStats) ==
  IF questionStats = <<>> THEN <<>>
  ELSE IF Head(questionStats).value.wrong > 0 /\ ~Head(questionStats).value.mastered
         THEN <<Head(questionStats).key>> \o getRetryPool(Tail(questionStats))
         ELSE getRetryPool(Tail(questionStats))

\* A summary whose lastSessionAt is taken from the first stored session
buildSummaryFirstSession(res, retryPool) ==
  LET totalAnswers == SumSeq([i \in DOMAIN res.sessions |-> res.sessions[i].totalAnswers])
      correctAnswers == SumSeq([i \in DOMAIN res.sessions |-> res.sessions[i].correctAnswers])
  IN [totalSessions |-> Len(res.sessions),
      totalAnswers |-> totalAnswers,
      correctAnswers |-> correctAnswers,
      wrongAnswers |-> totalAnswers - correctAnswers,
      accuracyPercent |-> IF totalAnswers > 0
                            THEN RoundPercent(correctAnswers, totalAnswers) ELSE 0,
      masteredQuestions |-> Len(SelectSeq(res.questionStats, LAMBDA e : e.value.mastered)),
      retryPoolSize |-> Len(retryPool),
      lastSessionAt |-> IF Len(res.sessions) > 0
                          THEN res.sessions[1].submittedAt ELSE NULL]

\* buildSummary(results, retryPool)
buildSummary(res, retryPool) ==
  LET totalAnswers == SumSeq([i \in DOMAIN res.sessions |-> res.sessions[i].totalAnswers])
      correctAnswers == SumSeq([i \in DOMAIN res.sessions |-> res.sessions[i].correctAnswers])
  IN [totalSessions |-> Len(res.sessions),
      totalAnswers |-> totalAnswers,
      correctAnswers |-> correctAnswers,
      wrongAnswers |-> totalAnswers - correctAnswers,
      accuracyPercent |-> IF totalAnswers > 0
                            THEN RoundPercent(correctAnswers, totalAnswers) ELSE 0,
      masteredQuestions |-> Len(SelectSeq(res.questionStats, LAMBDA e : e.value.mastered)),
      retryPoolSize |-> Len(retryPool),
      lastSessionAt |-> IF Len(res.sessions) > 0
                          THEN res.sessions[Len(res.sessions)].submittedAt ELSE NULL]

-----------------------------------------------------------------------------
\* Session scorer

\* Number.isInteger(answers[question.id]): an answers object is a function
\* from question ids to integers, so the test fails exactly for a question
\* without an entry
HasIntegerAnswer(answerMap, id) == id \in DOMAIN answerMap

\* A stat update in which a wrong answer resets the streak but keeps mastery
UpdateStatKeepsMastery(previous, isCorrect, now) ==
  [previous EXCEPT !.seen = @ + 1,
                   !.lastAnsweredAt = now,
                   !.lastResult = IF isCorrect THEN "correct" ELSE "wrong",
                   !.correct = IF isCorrect THEN @ + 1 ELSE @,
                   !.wrong = IF isCorrect THEN @ ELSE @ + 1,
                   !.consecutiveCorrect = IF isCorrect THEN @ + 1 ELSE 0,
                   !.mastered = IF isCorrect /\ previous.consecutiveCorrect + 1 >= MASTERY_STREAK
                                  THEN TRUE ELSE @]

\* A stat update in which a wrong answer of a mastered question is not counted
UpdateStatSparingMastered(previous, isCorrect, now) ==
  IF isCorrect \/ ~previous.mastered
    THEN UpdateStatKeepsMastery(previous, isCorrect, now)
    ELSE [previous EXCEPT !.seen = @ + 1, !.lastAnsweredAt = now, !.lastResult = "wrong"]

\* A stat update that leaves wrong answers out of the wrong counter
UpdateStatUncountedWrong(previous, isCorrect, now) ==
  IF isCorrect
    THEN UpdateStatKeepsMastery(previous, isCorrect, now)
    ELSE [previous EXCEPT !.seen = @ + 1, !.lastAnsweredAt = now, !.lastResult = "wrong",
                          !.consecutiveCorrect = 0, !.mastered = FALSE]

\* A stat update in which a wrong answer leaves the streak as it is
UpdateStatKeepingStreak(previous, isCorrect, now) ==
  IF isCorrect
    THEN UpdateStatKeepsMastery(previous, isCorrect, now)
    ELSE [previous EXCEPT !.seen = @ + 1, !.lastAnsweredAt = now, !.lastResult = "wrong",
                          !.wrong = @ + 1, !.mastered = FALSE]

\* The per-question stat update of the scoring loop
UpdateStat(previous, isCorrect, now) ==
  LET seenStat == [previous EXCEPT !.seen = @ + 1,
                                   !.lastAnsweredAt = now,
                                   !.lastResult = IF isCorrect THEN "correct" ELSE "wrong"]
  IN IF isCorrect
       THEN LET streak == seenStat.consecutiveCorrect + 1
            IN [seenStat EXCEPT !.correct = @ + 1,
                                !.consecutiveCorrect = streak,
                                !.mastered = IF streak >= MASTERY_STREAK THEN TRUE ELSE @]
       ELSE [seenStat EXCEPT !.wrong = @ + 1,
                             !.consecutiveCorrect = 0,
                             !.mastered = FALSE]

\* The locals of scoreAndPersistSession before its loop
ScoreStart(previousResults) ==
  [threw |-> FALSE, correctAnswers |-> 0, detailedAnswers |-> <<>>,
   masteredQuestionIds |-> <<>>, nextQuestionStats |-> previousResults.questionStats]

\* An iteration that lists every question mastered after its answer
ScoreQuestionListingMastered(acc, question, answerMap, now) ==
  IF ~HasIntegerAnswer(answerMap, question.id)
    THEN [threw |-> TRUE, message |-> [error |-> "invalid", questionId |-> question.id]]
  ELSE LET selectedIndex == answerMap[question.id] IN
  IF selectedIndex < 0 \/ selectedIndex >= Len(question.options)
    THEN [threw |-> TRUE, message |-> [error |-> "range", questionId |-> question.id]]
  ELSE
    LET isCorrect == selectedIndex = question.correct
        previous == IF Has(acc.nextQuestionStats, question.id)
                      THEN Get(acc.nextQuestionStats, question.id)
                      ELSE defaultQuestionStat
        updated == UpdateStat(previous, isCorrect, now)
    IN [threw |-> FALSE,
        correctAnswers |-> acc.correctAnswers + (IF isCorrect THEN 1 ELSE 0),
        detailedAnswers |->
          Append(acc.detailedAnswers,
                 [questionId |-> question.id, category |-> question.category,
                  selectedIndex |-> selectedIndex, correctIndex |-> question.correct,
                  isCorrect |-> isCorrect]),
        masteredQuestionIds |->
          IF updated.mastered
            THEN Append(acc.masteredQuestionIds, question.id)
            ELSE acc.masteredQuestionIds,
        nextQuestionStats |-> Put(acc.nextQuestionStats, question.id, updated)]

\* One iteration of the loop over params.questions
ScoreQuestion(acc, question, answerMap, now) ==
  IF ~HasIntegerAnswer(answerMap, question.id)
    THEN [threw |-> TRUE, message |-> [error |-> "invalid", questionId |-> question.id]]
  ELSE LET selectedIndex == answerMap[question.id] IN
  IF selectedIndex < 0 \/ selectedIndex >= Len(question.options)
    THEN [threw |-> TRUE, message |-> [error |-> "range", questionId |-> question.id]]
  ELSE
    LET isCorrect == selectedIndex = question.correct
        previous == IF Has(acc.nextQuestionStats, question.id)
                      THEN Get(acc.nextQuestionStats, question.id)
                      ELSE defaultQuestionStat
        wasMastered == previous.mastered
        updated == UpdateStat(previous, isCorrect, now)
    IN [threw |-> FALSE,
        correctAnswers |-> acc.correctAnswers + (IF isCorrect THEN 1 ELSE 0),
        detailedAnswers |->
          Append(acc.detailedAnswers,
                 [questionId |-> question.id, category |-> question.category,
                  selectedIndex |-> selectedIndex, correctIndex |-> question.correct,
                  isCorrect |-> isCorrect]),
        masteredQuestionIds |->
          IF ~wasMastered /\ updated.mastered
            THEN Append(acc.masteredQuestionIds, question.id)
            ELSE acc.masteredQuestionIds,
        nextQuestionStats |-> Put(acc.nextQuestionStats, question.id, updated)]

RECURSIVE ScoreLoop(_, _, _, _)
\* for (const question of params.questions): a throw leaves the loop
ScoreLoop(acc, questions, answerMap, now) ==
  IF questions = <<>> \/ acc.threw THEN acc
  ELSE ScoreLoop(ScoreQuestion(acc, Head(questions), answerMap, now),
                 Tail(questions), answerMap, now)

\* The stats of scoreAndPersistSession as objects behind references.  A heap
\* is the sequence of the objects allocated so far, an address an index into
\* it.  A questionStats object holds, for each id, the address of a stat.

\* A reference handed on in place of a copy
SharedReference(heap, a) == [heap |-> heap, at |-> a]

\* { ...object }: a new object with the properties of the object at a
SpreadCopy(heap, a) == [heap |-> Append(heap, heap[a]), at |-> Len(heap) + 1]

\* An object literal
NewObject(heap, content) == [heap |-> Append(heap, content), at |-> Len(heap) + 1]

\* params.previousResults.questionStats at address 1, its stats behind it
StatsHeap(questionStats) ==
  <<[i \in DOMAIN questionStats |-> Entry(questionStats[i].key, i + 1)]>>
    \o [i \in DOMAIN questionStats |-> questionStats[i].value]

\* The questionStats object at address a, read through its references
StatsAt(heap, a) ==
  [i \in DOMAIN heap[a] |-> Entry(heap[a][i].key, heap[heap[a][i].value])]

\* One iteration of the loop over params.questions, on the heap
ScoreQuestionOnHeap(mem, question, answerMap, now) ==
  IF \/ ~HasIntegerAnswer(answerMap, question.id)
     \/ answerMap[question.id] < 0
     \/ answerMap[question.id] >= Len(question.options)
    THEN [mem EXCEPT !.threw = TRUE]
    ELSE LET Written(previous) ==
               [(previous.heap) EXCEPT
                  ![previous.at] = UpdateStat(@, answerMap[question.id] = question.correct,
                                              now),
                  ![mem.next] = Put(@, question.id, previous.at)]
         IN [mem EXCEPT !.heap =
               Written(IF Has(mem.heap[mem.next], question.id)
                         THEN SpreadCopy(mem.heap, Get(mem.heap[mem.next], question.id))
                         ELSE NewObject(mem.heap, defaultQuestionStat))]

RECURSIVE ScoreLoopOnHeap(_, _, _, _)
ScoreLoopOnHeap(mem, questions, answerMap, now) ==
  IF questions = <<>> \/ mem.threw THEN mem
  ELSE ScoreLoopOnHeap(ScoreQuestionOnHeap(mem, Head(questions), answerMap, now),
                       Tail(questions), answerMap, now)

\* nextQuestionStats = { ...params.previousResults.questionStats } and the
\* loop: the heap it leaves, and the address of nextQuestionStats
ScoreOnHeap(questionStats, questions, answerMap, now) ==
  LET Run(start) ==
        ScoreLoopOnHeap([heap |-> start.heap, next |-> start.at, threw |-> FALSE],
                        questions, answerMap, now)
  IN Run(SpreadCopy(StatsHeap(questionStats), 1))

\* A scorer whose history entry lists the retry pool of the stats before the
\* session
scoreAndPersistSessionStalePool(params, t) ==
  LET now == IsoAt(t)
      acc == ScoreLoop(ScoreStart(params.previousResults), params.questions,
                       params.answers, now)
  IN IF acc.threw THEN acc
     ELSE
       LET totalAnswers == Len(params.questions)
           wrongAnswers == totalAnswers - acc.correctAnswers
           scorePercent == IF totalAnswers > 0
                             THEN RoundPercent(acc.correctAnswers, totalAnswers)
                             ELSE 0
           retryPool == getRetryPool(params.previousResults.questionStats)
           session == [id |-> SessionIdAt(t), submittedAt |-> now,
                       totalAnswers |-> totalAnswers,
                       correctAnswers |-> acc.correctAnswers,
                       wrongAnswers |-> wrongAnswers,
                       scorePercent |-> scorePercent,
                       retryMode |-> params.retryMode,
                       answers |-> acc.detailedAnswers]
           sessions == SliceLast(Append(params.previousResults.sessions, session),
                                 MAX_SAVED_SESSIONS)
           errorPoolHistory ==
             SliceLast(Append(params.previousResults.errorPoolHistory,
                              [at |-> now, questionIds |-> retryPool]),
                       MAX_ERROR_HISTORY)
       IN [threw |-> FALSE,
           nextResults |-> [params.previousResults EXCEPT
                              !.updatedAt = now,
                              !.sessions = sessions,
                              !.questionStats = acc.nextQuestionStats,
                              !.errorPoolHistory = errorPoolHistory],
           session |-> session,
           masteredQuestionIds |-> acc.masteredQuestionIds,
           retryPoolSize |-> Len(retryPool)]

\* scoreAndPersistSession(params) at clock value t: what it returns, or
\* [threw |-> TRUE, message] when it throws
scoreAndPersistSession(params, t) ==
  LET now == IsoAt(t)
      acc == ScoreLoop(ScoreStart(params.previousResults), params.questions,
                       params.answers, now)
  IN IF acc.threw THEN acc
     ELSE
       LET totalAnswers == Len(params.questions)
           wrongAnswers == totalAnswers - acc.correctAnswers
           scorePercent == IF totalAnswers > 0
                             THEN RoundPercent(acc.correctAnswers, totalAnswers)
                             ELSE 0
           retryPool == getRetryPool(acc.nextQuestionStats)
           session == [id |-> SessionIdAt(t), submittedAt |-> now,
                       totalAnswers |-> totalAnswers,
                       correctAnswers |-> acc.correctAnswers,
                       wrongAnswers |-> wrongAnswers,
                       scorePercent |-> scorePercent,
                       retryMode |-> params.retryMode,
                       answers |-> acc.detailedAnswers]
           sessions == SliceLast(Append(params.previousResults.sessions, session),
                                 MAX_SAVED_SESSIONS)
           errorPoolHistory ==
             SliceLast(Append(params.previousResults.errorPoolHistory,
                              [at |-> now, questionIds |-> retryPool]),
                       MAX_ERROR_HISTORY)
       IN [threw |-> FALSE,
           nextResults |-> [params.previousResults EXCEPT
                              !.updatedAt = now,
                              !.sessions = sessions,
                              !.questionStats = acc.nextQuestionStats,
                              !.errorPoolHistory = errorPoolHistory],
           session |-> session,
           masteredQuestionIds |-> acc.masteredQuestionIds,
           retryPoolSize |-> Len(retryPool)]

-----------------------------------------------------------------------------
\* Untyped JSON values: what JSON.parse returns, and a missing property

JUndefined == [t |-> "undefined"]
JNull == [t |-> "null"]
JBool(b) == [t |-> "bool", b |-> b]
JNum(n) == [t |-> "num", n |-> n]
\* The number n + 0.5, which is no integer
JHalf(n) == [t |-> "half", n |-> n]
JStr(s) == [t |-> "str", s |-> s]
JArr(a) == [t |-> "arr", a |-> a]
JObj(o) == [t |-> "obj", o |-> o]

\* value && typeof value === "object"
IsObject(v) == v.t \in {"obj", "arr"}

\* Array.isArray(value)
IsArray(v) == v.t = "arr"

\* source.name, for a source that passed IsObject
Field(v, name) ==
  IF v.t = "obj" /\ Has(v.o, name) THEN Get(v.o, name) ELSE JUndefined

\* Object.entries(value), for a value that passed IsObject
Entries(v) ==
  IF v.t = "obj" THEN v.o
  ELSE [i \in DOMAIN v.a |-> Entry(ToString(i - 1), v.a[i])]

\* Boolean(value)
Truthy(v) ==
  CASE v.t = "bool" -> v.b
    [] v.t = "num" -> v.n # 0
    [] v.t = "half" -> TRUE
    [] v.t = "str" -> v.s # ""
    [] v.t \in {"obj", "arr"} -> TRUE
    [] OTHER -> FALSE

RECURSIVE JsString(_)
RECURSIVE JoinComma(_)
\* Array.prototype.join(","): null and undefined elements give ""
JoinComma(a) ==
  IF a = <<>> THEN ""
  ELSE (IF Head(a).t \in {"null", "undefined"} THEN "" ELSE JsString(Head(a)))
       \o (IF Len(a) > 1 THEN "," \o JoinComma(Tail(a)) ELSE "")

\* String(value)
JsString(v) ==
  CASE v.t = "str" -> v.s
    [] v.t = "num" -> ToString(v.n)
    [] v.t = "half" -> ToString(v.n) \o ".5"
    [] v.t = "bool" -> IF v.b THEN "true" ELSE "false"
    [] v.t = "null" -> "null"
    [] v.t = "undefined" -> "undefined"
    [] v.t = "arr" -> JoinComma(v.a)
    [] v.t = "obj" -> "[object Object]"

RECURSIVE StringThrows(_)
\* Whether String(value) raises a TypeError.  A parsed object has no callable
\* toString once it owns a property of that name, and the valueOf it then
\* falls back to returns no primitive; an array joins the strings of its
\* elements other than null and undefined.
StringThrows(v) ==
  CASE v.t = "obj" -> Has(v.o, "toString")
    [] v.t = "arr" -> \E i \in DOMAIN v.a :
                        v.a[i].t \notin {"null", "undefined"} /\ StringThrows(v.a[i])
    [] OTHER -> FALSE

WhiteSpace == {" ", "\t", "\n"}

RECURSIVE TrimStart(_)
TrimStart(s) ==
  IF Len(s) > 0 /\ SubSeq(s, 1, 1) \in WhiteSpace THEN TrimStart(SubSeq(s, 2, Len(s))) ELSE s

RECURSIVE TrimEnd(_)
TrimEnd(s) ==
  IF Len(s) > 0 /\ SubSeq(s, Len(s), Len(s)) \in WhiteSpace
    THEN TrimEnd(SubSeq(s, 1, Len(s) - 1)) ELSE s

\* String.prototype.trim
Trim(s) == TrimEnd(TrimStart(s))

\* toNonEmptyString(value, fallback) for a string value
StringOrFallback(s, fallback) ==
  LET text == Trim(s) IN IF Len(text) > 0 THEN text ELSE fallback

\* toNonEmptyString(value, fallback): String(value ?? "").trim() or the fallback
toNonEmptyString(value, fallback) ==
  StringOrFallback(IF value.t \in {"null", "undefined"} THEN "" ELSE JsString(value),
                   fallback)

Digits == {"0", "1", "2", "3", "4", "5", "6", "7", "8", "9"}

DigitValue(c) == CHOOSE d \in 0..9 : ToString(d) = c

RECURSIVE LeadingDigits(_, _, _)
\* The value of the longest prefix of digits of s, after `count` digits of
\* value `acc`; count = 0 at the end means no digit was found (NaN)
LeadingDigits(s, acc, count) ==
  IF Len(s) > 0 /\ SubSeq(s, 1, 1) \in Digits
    THEN LeadingDigits(SubSeq(s, 2, Len(s)), 10 * acc + DigitValue(SubSeq(s, 1, 1)), count + 1)
    ELSE [value |-> acc, count |-> count]

\* Number.parseInt(text, 10): [nan, value]
parseInt(text) ==
  LET s == TrimStart(text)
      signed == Len(s) > 0 /\ SubSeq(s, 1, 1) \in {"-", "+"}
      negative == Len(s) > 0 /\ SubSeq(s, 1, 1) = "-"
      digits == LeadingDigits(IF signed THEN SubSeq(s, 2, Len(s)) ELSE s, 0, 0)
  IN [nan |-> digits.count = 0,
      value |-> IF negative THEN 0 - digits.value ELSE digits.value]

\* toNonNegativeInt(value)
toNonNegativeInt(value) ==
  LET parsed == parseInt(JsString(value))
  IN IF parsed.nan \/ parsed.value < 0 THEN 0 ELSE parsed.value

-----------------------------------------------------------------------------
\* Question bank: normalisation of questions.json

RECURSIVE padStart(_, _, _)
\* String.prototype.padStart(width, fill) for a fill of one character
padStart(s, width, fill) ==
  IF Len(s) >= width THEN s ELSE padStart(fill \o s, width, fill)

RECURSIVE MapToNonEmptyString(_)
\* rawOptions.map((entry) => toNonEmptyString(entry)).filter(Boolean)
MapToNonEmptyString(rawOptions) ==
  IF rawOptions = <<>> THEN <<>>
  ELSE LET Kept(text) == IF text # "" THEN <<text>> ELSE <<>>
       IN Kept(toNonEmptyString(Head(rawOptions), ""))
            \o MapToNonEmptyString(Tail(rawOptions))

RECURSIVE PadOptions(_)
\* while (options.length < 4) options.push(`Option ${options.length + 1}`)
PadOptions(options) ==
  IF Len(options) < 4
    THEN PadOptions(Append(options, "Option " \o ToString(Len(options) + 1)))
    ELSE options

\* The options of normalizeQuestion: mapped, filtered, padded, cut to 4
NormalizeOptions(rawOptions) ==
  SliceFirst(PadOptions(MapToNonEmptyString(IF IsArray(rawOptions) THEN rawOptions.a
                                            ELSE <<>>)),
             4)

\* Number.isInteger(value)
NumberIsInteger(v) == v.t = "num"

\* A normalisation that takes every integer as the correct index
normalizeQuestionUnchecked(raw, index) ==
  [id |-> toNonEmptyString(Field(raw, "id"), "q" \o padStart(ToString(index + 1), 4, "0")),
   question |-> toNonEmptyString(Field(raw, "question"), "Unbenannte Frage"),
   options |-> NormalizeOptions(Field(raw, "options")),
   correct |-> IF NumberIsInteger(Field(raw, "correct")) THEN Field(raw, "correct").n ELSE 0,
   category |-> toNonEmptyString(IF Field(raw, "category").t \in {"null", "undefined"}
                                   THEN Field(raw, "topic") ELSE Field(raw, "category"),
                                 "Allgemein"),
   explanation |-> toNonEmptyString(Field(raw, "explanation"),
                                    "Keine Erklaerung hinterlegt.")]

\* normalizeQuestion(raw, index), for a raw value whose fields String() accepts
normalizeQuestion(raw, index) ==
  LET Checked(options, correct) ==
        IF correct < 0 \/ correct >= Len(options) THEN 0 ELSE correct
      Built(options) ==
        [id |-> toNonEmptyString(Field(raw, "id"),
                                 "q" \o padStart(ToString(index + 1), 4, "0")),
         question |-> toNonEmptyString(Field(raw, "question"), "Unbenannte Frage"),
         options |-> options,
         correct |-> Checked(options,
                             IF NumberIsInteger(Field(raw, "correct"))
                               THEN Field(raw, "correct").n ELSE 0),
         category |-> toNonEmptyString(IF Field(raw, "category").t \in {"null", "undefined"}
                                         THEN Field(raw, "topic")
                                         ELSE Field(raw, "category"),
                                       "Allgemein"),
         explanation |-> toNonEmptyString(Field(raw, "explanation"),
                                          "Keine Erklaerung hinterlegt.")]
  IN Built(NormalizeOptions(Field(raw, "options")))

\* ALL_QUESTIONS for the value of QUESTIONS_PAYLOAD.questions
LoadQuestions(questions) ==
  IF IsArray(questions)
    THEN [i \in DOMAIN questions.a |-> normalizeQuestion(questions.a[i], i - 1)]
    ELSE <<>>

-----------------------------------------------------------------------------
\* Results store: normalisation of the persisted blob

normalizeQuestionStat(raw) ==
  LET source == IF IsObject(raw) THEN raw ELSE JObj(<<>>)
      lastResult == Field(source, "lastResult")
      lastAnsweredAt == Field(source, "lastAnsweredAt")
  IN [seen |-> toNonNegativeInt(Field(source, "seen")),
      correct |-> toNonNegativeInt(Field(source, "correct")),
      wrong |-> toNonNegativeInt(Field(source, "wrong")),
      consecutiveCorrect |-> toNonNegativeInt(Field(source, "consecutiveCorrect")),
      mastered |-> Truthy(Field(source, "mastered")),
      lastResult |-> IF lastResult.t = "str" /\ lastResult.s \in {"correct", "wrong"}
                       THEN lastResult.s ELSE NULL,
      lastAnsweredAt |->
        IF Truthy(lastAnsweredAt)
          THEN (LET text == toNonEmptyString(lastAnsweredAt, "")
                IN IF text # "" THEN text ELSE NULL)
          ELSE NULL]

RECURSIVE normalizeQuestionStats(_, _)
\* The loop over Object.entries(source.questionStats), from the stats built so far
normalizeQuestionStats(entries, questionStats) ==
  IF entries = <<>> THEN questionStats
  ELSE LET id == StringOrFallback(Head(entries).key, "")
       IN normalizeQuestionStats(
            Tail(entries),
            IF id = "" THEN questionStats
            ELSE Put(questionStats, id, normalizeQuestionStat(Head(entries).value)))

\* The answer record built from one raw answer that is an object
normalizeAnswer(answer) ==
  [questionId |-> toNonEmptyString(Field(answer, "questionId"), ""),
   category |-> toNonEmptyString(Field(answer, "category"), "Allgemein"),
   selectedIndex |-> toNonNegativeInt(Field(answer, "selectedIndex")),
   correctIndex |-> toNonNegativeInt(Field(answer, "correctIndex")),
   isCorrect |-> Truthy(Field(answer, "isCorrect"))]

\* sessionSource.answers mapped and filtered: an entry that is no object, or
\* whose questionId comes out empty, is dropped
normalizeAnswers(rawAnswers) ==
  IF IsArray(rawAnswers)
    THEN LET kept == SelectSeq(rawAnswers.a,
                               LAMBDA e : IsObject(e) /\ normalizeAnswer(e).questionId # "")
         IN [i \in DOMAIN kept |-> normalizeAnswer(kept[i])]
    ELSE <<>>

\* The session record built from one raw session that is an object, at clock t
normalizeSession(sessionSource, t) ==
  LET totalAnswers == toNonNegativeInt(Field(sessionSource, "totalAnswers"))
      correctAnswers == toNonNegativeInt(Field(sessionSource, "correctAnswers"))
  IN [id |-> toNonEmptyString(Field(sessionSource, "id"), SessionIdAt(t)),
      submittedAt |-> toNonEmptyString(Field(sessionSource, "submittedAt"), IsoAt(t)),
      totalAnswers |-> totalAnswers,
      correctAnswers |-> correctAnswers,
      wrongAnswers |-> IF totalAnswers >= correctAnswers
                         THEN totalAnswers - correctAnswers
                         ELSE toNonNegativeInt(Field(sessionSource, "wrongAnswers")),
      scorePercent |-> IF totalAnswers > 0
                         THEN RoundPercent(correctAnswers, totalAnswers)
                         ELSE toNonNegativeInt(Field(sessionSource, "scorePercent")),
      retryMode |-> Truthy(Field(sessionSource, "retryMode")),
      answers |-> normalizeAnswers(Field(sessionSource, "answers"))]

\* source.sessions mapped and filtered: an entry that is no object is dropped
normalizeSessions(rawSessions, t) ==
  IF IsArray(rawSessions)
    THEN LET kept == SelectSeq(rawSessions.a, IsObject)
         IN [i \in DOMAIN kept |-> normalizeSession(kept[i], t)]
    ELSE <<>>

normalizeQuestionIds(rawIds) ==
  IF IsArray(rawIds)
    THEN LET ids == [i \in DOMAIN rawIds.a |-> toNonEmptyString(rawIds.a[i], "")]
         IN SelectSeq(ids, LAMBDA id : id # "")
    ELSE <<>>

\* source.errorPoolHistory mapped and filtered
normalizeErrorPoolHistory(rawHistory, t) ==
  IF IsArray(rawHistory)
    THEN LET kept == SelectSeq(rawHistory.a, IsObject)
         IN [i \in DOMAIN kept |->
               [at |-> toNonEmptyString(Field(kept[i], "at"), IsoAt(t)),
                questionIds |-> normalizeQuestionIds(Field(kept[i], "questionIds"))]]
    ELSE <<>>

\* Whether toNonEmptyString(value) raises: String(value ?? "")
toNonEmptyStringThrows(value) ==
  value.t \notin {"null", "undefined"} /\ StringThrows(value)

\* Whether normalizeQuestionStat(raw) raises
normalizeQuestionStatThrows(raw) ==
  \E source \in {IF IsObject(raw) THEN raw ELSE JObj(<<>>)} :
    \/ \E name \in {"seen", "correct", "wrong", "consecutiveCorrect"} :
         StringThrows(Field(source, name))
    \/ /\ Truthy(Field(source, "lastAnsweredAt"))
       /\ toNonEmptyStringThrows(Field(source, "lastAnsweredAt"))

\* Whether the map over sessionSource.answers raises
normalizeAnswersThrows(rawAnswers) ==
  /\ IsArray(rawAnswers)
  /\ \E i \in DOMAIN rawAnswers.a :
       /\ IsObject(rawAnswers.a[i])
       /\ \/ toNonEmptyStringThrows(Field(rawAnswers.a[i], "questionId"))
          \/ toNonEmptyStringThrows(Field(rawAnswers.a[i], "category"))
          \/ StringThrows(Field(rawAnswers.a[i], "selectedIndex"))
          \/ StringThrows(Field(rawAnswers.a[i], "correctIndex"))

\* Whether the callback of the map over source.sessions raises on one raw
\* session that is an object; the persisted wrongAnswers and scorePercent
\* are read only where the ternaries fall back to them
normalizeSessionThrows(sessionSource) ==
  \/ normalizeAnswersThrows(Field(sessionSource, "answers"))
  \/ StringThrows(Field(sessionSource, "totalAnswers"))
  \/ StringThrows(Field(sessionSource, "correctAnswers"))
  \/ /\ ~StringThrows(Field(sessionSource, "totalAnswers"))
     /\ ~StringThrows(Field(sessionSource, "correctAnswers"))
     /\ \E totalAnswers \in {toNonNegativeInt(Field(sessionSource, "totalAnswers"))} :
          \/ /\ totalAnswers < toNonNegativeInt(Field(sessionSource, "correctAnswers"))
             /\ StringThrows(Field(sessionSource, "wrongAnswers"))
          \/ /\ totalAnswers = 0
             /\ StringThrows(Field(sessionSource, "scorePercent"))
  \/ toNonEmptyStringThrows(Field(sessionSource, "id"))
  \/ toNonEmptyStringThrows(Field(sessionSource, "submittedAt"))

\* Whether the map over source.errorPoolHistory raises on one raw entry that
\* is an object
normalizeHistoryEntryThrows(history) ==
  \/ toNonEmptyStringThrows(Field(history, "at"))
  \/ /\ IsArray(Field(history, "questionIds"))
     /\ \E i \in DOMAIN Field(history, "questionIds").a :
          toNonEmptyStringThrows(Field(history, "questionIds").a[i])

\* Whether normalizeResults(raw, fallbackTheme) raises instead of returning
normalizeResultsThrows(raw) ==
  /\ IsObject(raw)
  /\ \/ /\ IsObject(Field(raw, "questionStats"))
        /\ \E i \in DOMAIN Entries(Field(raw, "questionStats")) :
             /\ StringOrFallback(Entries(Field(raw, "questionStats"))[i].key, "") # ""
             /\ normalizeQuestionStatThrows(Entries(Field(raw, "questionStats"))[i].value)
     \/ /\ IsArray(Field(raw, "sessions"))
        /\ \E i \in DOMAIN Field(raw, "sessions").a :
             /\ IsObject(Field(raw, "sessions").a[i])
             /\ normalizeSessionThrows(Field(raw, "sessions").a[i])
     \/ /\ IsArray(Field(raw, "errorPoolHistory"))
        /\ \E i \in DOMAIN Field(raw, "errorPoolHistory").a :
             /\ IsObject(Field(raw, "errorPoolHistory").a[i])
             /\ normalizeHistoryEntryThrows(Field(raw, "errorPoolHistory").a[i])
     \/ toNonEmptyStringThrows(Field(raw, "createdAt"))
     \/ toNonEmptyStringThrows(Field(raw, "updatedAt"))

\* normalizeResults(raw, fallbackTheme) at clock value t
normalizeResults(raw, fallbackTheme, t) ==
  LET base == defaultResults(fallbackTheme, IsoAt(t)) IN
  IF ~IsObject(raw) THEN base
  ELSE
    LET source == raw
        preferences == Field(source, "preferences")
        rawTheme == IF preferences.t = "obj" THEN Field(preferences, "theme") ELSE JUndefined
        theme == IF rawTheme.t = "str" /\ isThemePreference(rawTheme.s)
                   THEN rawTheme.s ELSE fallbackTheme
        rawStats == Field(source, "questionStats")
    IN [createdAt |-> toNonEmptyString(Field(source, "createdAt"), base.createdAt),
        updatedAt |-> toNonEmptyString(Field(source, "updatedAt"), base.updatedAt),
        sessions |-> normalizeSessions(Field(source, "sessions"), t),
        questionStats |-> IF IsObject(rawStats)
                            THEN normalizeQuestionStats(Entries(rawStats), <<>>)
                            ELSE <<>>,
        errorPoolHistory |-> normalizeErrorPoolHistory(Field(source, "errorPoolHistory"), t),
        preferences |-> [theme |-> theme]]

-----------------------------------------------------------------------------
\* Results store: serialisation (JSON.stringify followed by JSON.parse)

\* A `string | null` field
NullableToJson(value) == IF value = NULL THEN JNull ELSE JStr(value)

\* A serialisation that leaves out the streak
QuestionStatToJsonWithoutStreak(stat) ==
  JObj(<< Entry("seen", JNum(stat.seen)),
          Entry("correct", JNum(stat.correct)),
          Entry("wrong", JNum(stat.wrong)),
          Entry("mastered", JBool(stat.mastered)),
          Entry("lastResult", NullableToJson(stat.lastResult)),
          Entry("lastAnsweredAt", NullableToJson(stat.lastAnsweredAt)) >>)

QuestionStatToJson(stat) ==
  JObj(<< Entry("seen", JNum(stat.seen)),
          Entry("correct", JNum(stat.correct)),
          Entry("wrong", JNum(stat.wrong)),
          Entry("consecutiveCorrect", JNum(stat.consecutiveCorrect)),
          Entry("mastered", JBool(stat.mastered)),
          Entry("lastResult", NullableToJson(stat.lastResult)),
          Entry("lastAnsweredAt", NullableToJson(stat.lastAnsweredAt)) >>)

AnswerToJson(answer) ==
  JObj(<< Entry("questionId", JStr(answer.questionId)),
          Entry("category", JStr(answer.category)),
          Entry("selectedIndex", JNum(answer.selectedIndex)),
          Entry("correctIndex", JNum(answer.correctIndex)),
          Entry("isCorrect", JBool(answer.isCorrect)) >>)

SessionToJson(session) ==
  JObj(<< Entry("id", JStr(session.id)),
          Entry("submittedAt", JStr(session.submittedAt)),
          Entry("totalAnswers", JNum(session.totalAnswers)),
          Entry("correctAnswers", JNum(session.correctAnswers)),
          Entry("wrongAnswers", JNum(session.wrongAnswers)),
          Entry("scorePercent", JNum(session.scorePercent)),
          Entry("retryMode", JBool(session.retryMode)),
          Entry("answers", JArr([i \in DOMAIN session.answers |->
                                   AnswerToJson(session.answers[i])])) >>)

HistoryEntryToJson(entry) ==
  JObj(<< Entry("at", JStr(entry.at)),
          Entry("questionIds", JArr([i \in DOMAIN entry.questionIds |->
                                       JStr(entry.questionIds[i])])) >>)

\* JSON.parse(JSON.stringify(results)) for a QuizResults value
ResultsToJson(r) ==
  JObj(<< Entry("createdAt", JStr(r.createdAt)),
          Entry("updatedAt", JStr(r.updatedAt)),
          Entry("sessions", JArr([i \in DOMAIN r.sessions |-> SessionToJson(r.sessions[i])])),
          Entry("questionStats",
                JObj([i \in DOMAIN r.questionStats |->
                        Entry(r.questionStats[i].key,
                              QuestionStatToJson(r.questionStats[i].value))])),
          Entry("errorPoolHistory",
                JArr([i \in DOMAIN r.errorPoolHistory |->
                        HistoryEntryToJson(r.errorPoolHistory[i])])),
          Entry("preferences", JObj(<< Entry("theme", JStr(r.preferences.theme)) >>)) >>)

-----------------------------------------------------------------------------
\* localStorage

\* getItem returned null: the key was never written
NoItem == [t |-> "none"]
\* The stored text, by the value JSON.parse gives for it
JsonText(v) == [t |-> "json", v |-> v]
\* A stored text JSON.parse rejects
Unparsable == [t |-> "unparsable"]
\* The stored theme text
ThemeText(s) == [t |-> "text", s |-> s]

\* safeParseJson(raw) for a non-empty stored text
safeParseJson(item) == IF item.t = "json" THEN item.v ELSE JNull

\* What persistResults(results) leaves under STORAGE_RESULTS_KEY
persistResults(r) == JsonText(ResultsToJson(r))

\* readThemePreference(): the stored theme if it is one, else NULL
readThemePreference(item) ==
  IF item.t = "text" /\ isThemePreference(item.s) THEN item.s ELSE NULL

\* Whether loadBootstrapState() raises: nothing catches what normalizeResults
\* raises
loadBootstrapStateThrows(resultsItem) ==
  resultsItem.t # "none" /\ normalizeResultsThrows(safeParseJson(resultsItem))

\* A bootstrap in which the theme of the results blob wins over the theme key
loadBootstrapStateBlobFirst(resultsItem, themeItem, t) ==
  LET Parsed(fallbackTheme) ==
        IF resultsItem.t # "none"
          THEN normalizeResults(safeParseJson(resultsItem), fallbackTheme, t)
          ELSE defaultResults(fallbackTheme, IsoAt(t))
      Loaded(parsed) == [results |-> parsed, theme |-> parsed.preferences.theme]
      Fallback(stored) == IF stored # NULL THEN stored ELSE "system"
  IN Loaded(Parsed(Fallback(readThemePreference(themeItem))))

\* loadBootstrapState() over the two stored items, at clock value t
loadBootstrapState(resultsItem, themeItem, t) ==
  LET Parsed(fallbackTheme) ==
        IF resultsItem.t # "none"
          THEN normalizeResults(safeParseJson(resultsItem), fallbackTheme, t)
          ELSE defaultResults(fallbackTheme, IsoAt(t))
      Resolved(theme, parsed) ==
        [results |-> IF parsed.preferences.theme # theme
                       THEN [parsed EXCEPT !.preferences.theme = theme,
                                           !.updatedAt = IsoAt(t)]
                       ELSE parsed,
         theme |-> theme]
      Themed(stored, parsed) ==
        Resolved(IF stored # NULL THEN stored ELSE parsed.preferences.theme, parsed)
      Loaded(stored) ==
        Themed(stored, Parsed(IF stored # NULL THEN stored ELSE "system"))
  IN Loaded(readThemePreference(themeItem))

-----------------------------------------------------------------------------
\* Quiz selector

UpperCase == "ABCDEFGHIJKLMNOPQRSTUVWXYZ"
LowerCase == "abcdefghijklmnopqrstuvwxyz"

LowerChar(c) ==
  IF \E i \in 1..Len(UpperCase) : SubSeq(UpperCase, i, i) = c
    THEN LET i == CHOOSE i \in 1..Len(UpperCase) : SubSeq(UpperCase, i, i) = c
         IN SubSeq(LowerCase, i, i)
    ELSE c

RECURSIVE toLowerCase(_)
\* String.prototype.toLowerCase
toLowerCase(s) ==
  IF Len(s) = 0 THEN "" ELSE LowerChar(SubSeq(s, 1, 1)) \o toLowerCase(SubSeq(s, 2, Len(s)))

\* clampPositiveInt(value, fallback) for an integer value
clampPositiveInt(value, fallback) ==
  IF value <= 0 THEN fallback ELSE Min(value, MAX_LIMIT)

\* shuffle(items): the arrays the Fisher-Yates loop can return, one for each
\* sequence of draws of Math.random
shuffle(items) ==
  LET n == Len(items)
      draws == {f \in [1..n -> 1..n] : \A i, j \in 1..n : i # j => f[i] # f[j]}
  IN {[i \in 1..n |-> items[f[i]]] : f \in draws}

\* A selection that, in retry mode, filters the whole bank instead of the
\* questions of the category
FilterQuestionsRetryOverBank(questions, res, options) ==
  LET normalizedCategory == toLowerCase(Trim(options.category))
  IN IF options.retryMode
       THEN SelectSeq(questions,
                      LAMBDA q : /\ Has(res.questionStats, q.id)
                                 /\ Get(res.questionStats, q.id).wrong > 0
                                 /\ ~Get(res.questionStats, q.id).mastered)
       ELSE IF normalizedCategory # ""
              THEN SelectSeq(questions,
                             LAMBDA q : toLowerCase(q.category) = normalizedCategory)
              ELSE questions

\* The two filters of selectQuestions
FilterQuestions(questions, res, options) ==
  LET normalizedCategory == toLowerCase(Trim(options.category))
      byCategory ==
        IF normalizedCategory # ""
          THEN SelectSeq(questions,
                         LAMBDA q : toLowerCase(q.category) = normalizedCategory)
          ELSE questions
  IN IF options.retryMode
       THEN SelectSeq(byCategory,
                      LAMBDA q : /\ Has(res.questionStats, q.id)
                                 /\ Get(res.questionStats, q.id).wrong > 0
                                 /\ ~Get(res.questionStats, q.id).mastered)
       ELSE byCategory

\* selectQuestions(questions, results, options): the arrays it can return
selectQuestions(questions, res, options) ==
  {SliceFirst(shuffled, options.limit) :
     shuffled \in shuffle(FilterQuestions(questions, res, options))}

-----------------------------------------------------------------------------
\* Theme

\* cycleTheme(current)
cycleTheme(current) ==
  IF \E i \in DOMAIN THEME_SEQUENCE : THEME_SEQUENCE[i] = current
    THEN LET index == (CHOOSE i \in DOMAIN THEME_SEQUENCE : THEME_SEQUENCE[i] = current) - 1
         IN THEME_SEQUENCE[((index + 1) % Len(THEME_SEQUENCE)) + 1]
    ELSE "system"

-----------------------------------------------------------------------------
\* The notices the handlers set

ReadyNotice == [kind |-> "ready"]
StartFirstNotice == [kind |-> "start-first"]
MissingNotice(n) == [kind |-> "missing", count |-> n]
ErrorNotice(message) == [kind |-> "error", message |-> message]
SavedNotice(payload) ==
  [kind |-> "saved", scorePercent |-> payload.session.scorePercent,
   correctAnswers |-> payload.session.correctAnswers,
   totalAnswers |-> payload.session.totalAnswers,
   retryPoolSize |-> payload.retryPoolSize,
   newlyMastered |-> Len(payload.masteredQuestionIds)]
NoneFoundNotice == [kind |-> "none-found"]
LoadedNotice(n, retry, category) ==
  [kind |-> "loaded", count |-> n, retryMode |-> retry, category |-> category]
ResetNotice == [kind |-> "reset"]
ThemeNotice(theme) == [kind |-> "theme", theme |-> theme]

-----------------------------------------------------------------------------
\* App: derived values of a render

\* activeQuestions[currentIndex] ?? null, as a sequence of at most one question
currentQuestion ==
  IF currentIndex + 1 \in DOMAIN activeQuestions
    THEN <<activeQuestions[currentIndex + 1]>> ELSE <<>>

\* The feedback selectAnswer and handleKeyboard record
Feedback(question, optionIndex) ==
  [isCorrect |-> optionIndex = question.correct, explanation |-> question.explanation]

-----------------------------------------------------------------------------
\* App: the effects that run after a render

\* The updater of the effect on [themePreference]
ThemeSync(previous, theme, t) ==
  IF previous.preferences.theme = theme THEN previous
  ELSE [previous EXCEPT !.updatedAt = IsoAt(t), !.preferences.theme = theme]

\* Effects of which the one on [results] runs only after a handler that
\* called setResults, not after the store was replaced by the theme effect
CommitWithoutSyncedWrite(nextResults, resultsSet, nextTheme, t) ==
  LET themeChanged == nextTheme # themePreference
      synced == IF themeChanged THEN ThemeSync(nextResults, nextTheme, t) ELSE nextResults
  IN /\ themePreference' = nextTheme
     /\ storedTheme' = IF themeChanged THEN ThemeText(nextTheme) ELSE storedTheme
     /\ results' = synced
     /\ storedResults' = IF resultsSet THEN persistResults(nextResults) ELSE storedResults

\* The renders and effects that follow a handler which left the store at
\* nextResults (resultsSet: it called setResults) and the theme at nextTheme,
\* at clock value t.  The effect on [themePreference] runs when the theme
\* changed; the effect on [results] runs when the store was replaced.
Commit(nextResults, resultsSet, nextTheme, t) ==
  LET themeChanged == nextTheme # themePreference
      synced == IF themeChanged THEN ThemeSync(nextResults, nextTheme, t) ELSE nextResults
  IN /\ themePreference' = nextTheme
     /\ storedTheme' = IF themeChanged THEN ThemeText(nextTheme) ELSE storedTheme
     /\ results' = synced
     /\ storedResults' = IF resultsSet \/ synced # nextResults
                           THEN persistResults(synced) ELSE storedResults

\* A handler that touches neither the store nor the theme
NoCommit == UNCHANGED <<results, themePreference, storedResults, storedTheme>>

-----------------------------------------------------------------------------
\* App: mounting

\* The value of every useState before App() has run
Unmounted ==
  /\ booted = FALSE
  /\ results = defaultResults("system", NULL)
  /\ themePreference = "system"
  /\ limit = DEFAULT_LIMIT
  /\ selectedCategory = ""
  /\ retryMode = FALSE
  /\ activeQuestions = <<>>
  /\ currentIndex = 0
  /\ answers = <<>>
  /\ feedbackByQuestionId = <<>>
  /\ notice = ReadyNotice
  /\ latestSession = <<>>
  /\ submits = 0

\* The first render of App(): loadBootstrapState, then both effects.  When
\* loadBootstrapState raises, the render fails and App() never mounts.
Boot ==
  /\ ~booted
  /\ ~loadBootstrapStateThrows(storedResults)
  /\ booted' = TRUE
  /\ \E bootstrap \in {loadBootstrapState(storedResults, storedTheme, clock)} :
       \E synced \in {ThemeSync(bootstrap.results, bootstrap.theme, clock)} :
         /\ results' = synced
         /\ themePreference' = bootstrap.theme
         /\ storedTheme' = ThemeText(bootstrap.theme)
         /\ storedResults' = persistResults(synced)
  /\ UNCHANGED <<ALL_QUESTIONS, uiVars, notice, clock, submits>>

\* Time passes
Tick ==
  /\ clock < MaxClock
  /\ clock' = clock + 1
  /\ UNCHANGED <<ALL_QUESTIONS, booted, results, themePreference, uiVars, notice,
                 storedResults, storedTheme, submits>>

-----------------------------------------------------------------------------
\* App: the handlers

\* { ...previous, [key]: value }
With(previous, key, value) ==
  [k \in DOMAIN previous \cup {key} |-> IF k = key THEN value ELSE previous[k]]

\* onChange of the limit input: Number.parseInt(text, 10) || 1, for the typed
\* integer `typed`
SetLimit(typed) ==
  /\ booted
  /\ limit' = IF typed = 0 THEN 1 ELSE typed
  /\ NoCommit
  /\ UNCHANGED <<ALL_QUESTIONS, booted, selectedCategory, retryMode, activeQuestions,
                 currentIndex, answers, feedbackByQuestionId, notice, latestSession,
                 clock, submits>>

\* onChange of the category select
SetSelectedCategory(category) ==
  /\ booted
  /\ selectedCategory' = category
  /\ NoCommit
  /\ UNCHANGED <<ALL_QUESTIONS, booted, limit, retryMode, activeQuestions,
                 currentIndex, answers, feedbackByQuestionId, notice, latestSession,
                 clock, submits>>

\* onChange of the retry-mode checkbox
SetRetryMode(checked) ==
  /\ booted
  /\ retryMode' = checked
  /\ NoCommit
  /\ UNCHANGED <<ALL_QUESTIONS, booted, limit, selectedCategory, activeQuestions,
                 currentIndex, answers, feedbackByQuestionId, notice, latestSession,
                 clock, submits>>

startQuiz ==
  /\ booted
  /\ LET normalizedLimit == clampPositiveInt(limit, DEFAULT_LIMIT) IN
     /\ limit' = normalizedLimit
     /\ \E selected \in selectQuestions(ALL_QUESTIONS, results,
                                        [limit |-> normalizedLimit,
                                         category |-> selectedCategory,
                                         retryMode |-> retryMode]) :
          /\ activeQuestions' = selected
          /\ notice' = IF Len(selected) = 0 THEN NoneFoundNotice
                       ELSE LoadedNotice(Len(selected), retryMode, selectedCategory)
  /\ currentIndex' = 0
  /\ answers' = <<>>
  /\ feedbackByQuestionId' = <<>>
  /\ latestSession' = <<>>
  /\ NoCommit
  /\ UNCHANGED <<ALL_QUESTIONS, booted, selectedCategory, retryMode, clock, submits>>

\* An answer that is saved at once: the store is stamped and persisted
RecordAnswerAutosaving(question, optionIndex) ==
  /\ answers' = With(answers, question.id, optionIndex)
  /\ feedbackByQuestionId' =
       With(feedbackByQuestionId, question.id, Feedback(question, optionIndex))
  /\ Commit([results EXCEPT !.updatedAt = nowIso], TRUE, themePreference, clock)
  /\ UNCHANGED <<ALL_QUESTIONS, booted, limit, selectedCategory, retryMode,
                 activeQuestions, currentIndex, notice, latestSession, clock, submits>>

\* The two state updates selectAnswer and the digit keys share
RecordAnswer(question, optionIndex) ==
  /\ answers' = With(answers, question.id, optionIndex)
  /\ feedbackByQuestionId' =
       With(feedbackByQuestionId, question.id, Feedback(question, optionIndex))
  /\ NoCommit
  /\ UNCHANGED <<ALL_QUESTIONS, booted, limit, selectedCategory, retryMode,
                 activeQuestions, currentIndex, notice, latestSession, clock, submits>>

\* Click on the option button optionIndex of the current question
selectAnswer(optionIndex) ==
  /\ booted
  /\ currentQuestion # <<>>
  /\ optionIndex \in 0..(Len(currentQuestion[1].options) - 1)
  /\ RecordAnswer(currentQuestion[1], optionIndex)

\* setCurrentIndex of the navigation buttons and the arrow keys
Navigate(next) ==
  /\ currentIndex' = next
  /\ NoCommit
  /\ UNCHANGED <<ALL_QUESTIONS, booted, limit, selectedCategory, retryMode,
                 activeQuestions, answers, feedbackByQuestionId, notice, latestSession,
                 clock, submits>>

\* handleKeyboard for the keys "ArrowRight", "ArrowLeft" and "1" .. "4"
handleKeyboard(key) ==
  /\ booted
  /\ Len(activeQuestions) # 0 /\ currentQuestion # <<>>
  /\ CASE key = "ArrowRight" -> Navigate(Min(currentIndex + 1, Len(activeQuestions) - 1))
       [] key = "ArrowLeft" -> Navigate(Max(currentIndex - 1, 0))
       [] OTHER ->
            LET optionIndex == parseInt(key).value - 1 IN
            /\ optionIndex < Len(currentQuestion[1].options)
            /\ RecordAnswer(currentQuestion[1], optionIndex)

\* The button "Zurueck"
Back ==
  /\ booted
  /\ ~(currentIndex = 0 \/ Len(activeQuestions) = 0)
  /\ Navigate(Max(currentIndex - 1, 0))

\* The button "Weiter"
Forward ==
  /\ booted
  /\ ~(Len(activeQuestions) = 0 \/ currentIndex >= Len(activeQuestions) - 1)
  /\ Navigate(Min(currentIndex + 1, Len(activeQuestions) - 1))

\* A submission whose failure keeps the stats of the questions scored before
\* the failing one
ScoreAndStoreKeepingPartial(questions, answerMap, retry, t) ==
  \E payload \in {scoreAndPersistSession([questions |-> questions, answers |-> answerMap,
                                          retryMode |-> retry, previousResults |-> results],
                                         t)} :
    IF payload.threw
      THEN LET failing == CHOOSE i \in DOMAIN questions :
                            questions[i].id = payload.message.questionId
               scored == ScoreLoop(ScoreStart(results), SubSeq(questions, 1, failing - 1),
                                   answerMap, IsoAt(t))
           IN /\ notice' = ErrorNotice(payload.message)
              /\ Commit([results EXCEPT !.questionStats = scored.nextQuestionStats],
                        TRUE, themePreference, t)
              /\ UNCHANGED <<latestSession, submits>>
      ELSE /\ Commit(payload.nextResults, TRUE, themePreference, t)
           /\ latestSession' = <<payload.session>>
           /\ notice' = SavedNotice(payload)
           /\ submits' = submits + 1

\* The try block of submitQuiz and its catch, at clock value t
ScoreAndStore(questions, answerMap, retry, t) ==
  \E payload \in {scoreAndPersistSession([questions |-> questions, answers |-> answerMap,
                                          retryMode |-> retry, previousResults |-> results],
                                         t)} :
    IF payload.threw
      THEN /\ notice' = ErrorNotice(payload.message)
           /\ NoCommit
           /\ UNCHANGED <<latestSession, submits>>
      ELSE /\ Commit(payload.nextResults, TRUE, themePreference, t)
           /\ latestSession' = <<payload.session>>
           /\ notice' = SavedNotice(payload)
           /\ submits' = submits + 1

\* The questions of the active quiz without an integer answer
Unanswered == SelectSeq(activeQuestions, LAMBDA q : ~HasIntegerAnswer(answers, q.id))

\* A submission that discards the answers given when one is missing
submitQuizDroppingAnswers ==
  /\ booted
  /\ Len(activeQuestions) # 0
  /\ submits < MaxSubmits
  /\ IF Len(Unanswered) > 0
       THEN /\ notice' = MissingNotice(Len(Unanswered))
            /\ answers' = <<>>
            /\ NoCommit
            /\ UNCHANGED <<latestSession, submits>>
       ELSE /\ ScoreAndStore(activeQuestions, answers, retryMode, clock)
            /\ UNCHANGED answers
  /\ UNCHANGED <<ALL_QUESTIONS, booted, limit, selectedCategory, retryMode,
                 activeQuestions, currentIndex, feedbackByQuestionId, clock>>

\* Click on "Quiz auswerten", which is disabled while no quiz is active
submitQuiz ==
  /\ booted
  /\ Len(activeQuestions) # 0
  /\ submits < MaxSubmits
  /\ IF Len(Unanswered) > 0
       THEN /\ notice' = MissingNotice(Len(Unanswered))
            /\ NoCommit
            /\ UNCHANGED <<latestSession, submits>>
       ELSE ScoreAndStore(activeQuestions, answers, retryMode, clock)
  /\ UNCHANGED <<ALL_QUESTIONS, booted, limit, selectedCategory, retryMode,
                 activeQuestions, currentIndex, answers, feedbackByQuestionId, clock>>

\* A reset that stamps a new createdAt
resetProgressFresh(confirmed) ==
  /\ booted
  /\ IF ~confirmed
       THEN UNCHANGED vars
       ELSE /\ Commit(defaultResults(results.preferences.theme, nowIso),
                      TRUE, themePreference, clock)
            /\ activeQuestions' = <<>>
            /\ currentIndex' = 0
            /\ answers' = <<>>
            /\ feedbackByQuestionId' = <<>>
            /\ latestSession' = <<>>
            /\ notice' = ResetNotice
            /\ UNCHANGED <<ALL_QUESTIONS, booted, limit, selectedCategory, retryMode,
                           clock, submits>>

\* A reset that leaves the answers of the quiz it closes
resetProgressKeepingAnswers(confirmed) ==
  /\ booted
  /\ IF ~confirmed
       THEN UNCHANGED vars
       ELSE /\ Commit([defaultResults(results.preferences.theme, nowIso)
                         EXCEPT !.createdAt = results.createdAt],
                      TRUE, themePreference, clock)
            /\ activeQuestions' = <<>>
            /\ currentIndex' = 0
            /\ answers' = answers
            /\ feedbackByQuestionId' = <<>>
            /\ latestSession' = <<>>
            /\ notice' = ResetNotice
            /\ UNCHANGED <<ALL_QUESTIONS, booted, limit, selectedCategory, retryMode,
                           clock, submits>>

\* Click on "Fortschritt loeschen"; confirmed is the answer to window.confirm
resetProgress(confirmed) ==
  /\ booted
  /\ IF ~confirmed
       THEN UNCHANGED vars
       ELSE /\ Commit([defaultResults(results.preferences.theme, nowIso)
                         EXCEPT !.createdAt = results.createdAt],
                      TRUE, themePreference, clock)
            /\ activeQuestions' = <<>>
            /\ currentIndex' = 0
            /\ answers' = <<>>
            /\ feedbackByQuestionId' = <<>>
            /\ latestSession' = <<>>
            /\ notice' = ResetNotice
            /\ UNCHANGED <<ALL_QUESTIONS, booted, limit, selectedCategory, retryMode,
                           clock, submits>>

\* A toggle whose theme reaches the theme key but not the store
toggleThemeBesideStore ==
  /\ booted
  /\ LET nextTheme == cycleTheme(themePreference) IN
     /\ themePreference' = nextTheme
     /\ storedTheme' = ThemeText(nextTheme)
     /\ notice' = ThemeNotice(nextTheme)
  /\ UNCHANGED <<ALL_QUESTIONS, booted, uiVars, clock, submits, results, storedResults>>

toggleTheme ==
  /\ booted
  /\ LET nextTheme == cycleTheme(themePreference) IN
     /\ Commit(results, FALSE, nextTheme, clock)
     /\ notice' = ThemeNotice(nextTheme)
  /\ UNCHANGED <<ALL_QUESTIONS, booted, uiVars, clock, submits>>

-----------------------------------------------------------------------------
\* The application, started on an empty localStorage

\* listAvailableCategories(ALL_QUESTIONS), as a set
listAvailableCategories(questions) == {questions[i].category : i \in DOMAIN questions}

\* What the user can type into the limit input
TypedLimits == {-1, 0, 1}

\* The option buttons the user clicks, and the keys pressed
ClickedOptions == {0, 1}
PressedKeys == {"ArrowRight", "ArrowLeft", "1", "2"}

\* App() not yet mounted, over the bank and the stored items given
Start(bank, resultsItem, themeItem) ==
  /\ Unmounted
  /\ ALL_QUESTIONS = bank
  /\ storedResults = resultsItem
  /\ storedTheme = themeItem
  /\ clock = 0

Init == Start(BankOfTwo, NoItem, NoItem)

\* One quiz after the other in standard mode: start, answer, navigate,
\* submit, reset
Next ==
  \/ Boot
  \/ Tick
  \/ startQuiz
  \/ \E optionIndex \in ClickedOptions : selectAnswer(optionIndex)
  \/ \E key \in PressedKeys : handleKeyboard(key)
  \/ Back
  \/ Forward
  \/ submitQuiz
  \/ \E confirmed \in BOOLEAN : resetProgress(confirmed)

Spec == Init /\ [][Next]_vars


-----------------------------------------------------------------------------
\* The scorer harness: the try block of submitQuiz driven with chosen
\* parameters, one clock tick after the previous call

ScoreCall(questions, answerMap, retry) ==
  /\ booted
  /\ clock' = clock + 1
  /\ ScoreAndStore(questions, answerMap, retry, clock + 1)
  /\ UNCHANGED <<ALL_QUESTIONS, booted, limit, selectedCategory, retryMode,
                 activeQuestions, currentIndex, answers, feedbackByQuestionId>>

IdsOf(questions) == {questions[i].id : i \in DOMAIN questions}

\* The question lists the harness passes: one question, and two questions in
\* an order that is not the bank's
HarnessQuizzes == {<<BankOfThree[1]>>, <<BankOfThree[2], BankOfThree[1]>>}

\* The question lists of the harness that also passes invalid answers: one
\* question, and the whole bank in an order that is not the bank's
\* The whole bank in an order that is not the bank's
WholeBankQuiz == <<BankOfThree[3], BankOfThree[1], BankOfThree[2]>>
FaultyQuizzes == {<<BankOfThree[1]>>, WholeBankQuiz}

\* Every question answered by one of the first two options
ValidAnswerMaps(questions) == [IdsOf(questions) -> {0, 1}]

\* Some questions answered, by an option or by an index out of range
FaultyAnswerMaps(questions) ==
  UNION {[D -> {-1, 0, 1, 4}] : D \in SUBSET IdsOf(questions)}

InitScorer == Start(BankOfThree, NoItem, NoItem)

NextScorer ==
  \/ Boot
  \/ /\ clock < MaxCalls
     /\ \E questions \in HarnessQuizzes :
          \E answerMap \in ValidAnswerMaps(questions) :
            ScoreCall(questions, answerMap, FALSE)

SpecScorer == InitScorer /\ [][NextScorer]_vars

NextFaulty ==
  \/ Boot
  \/ /\ clock < MaxFaultyCalls
     /\ \E questions \in FaultyQuizzes :
          \E answerMap \in FaultyAnswerMaps(questions) :
            \E retry \in BOOLEAN :
              ScoreCall(questions, answerMap, retry)

SpecFaulty == InitScorer /\ [][NextFaulty]_vars


-----------------------------------------------------------------------------
\* The application started on a long history: the blob it persisted after
\* many one-question quizzes, and a blob with one session more than it keeps

BankOfOne == SubSeq(BankOfThree, 1, 1)

\* The store after `count` quizzes on the first question, each answered by the
\* wrong option 1, at the clock values -count .. -1
StoreAfter(count) ==
  LET q == BankOfThree[1]
      oldSession(t) ==
        [id |-> SessionIdAt(t), submittedAt |-> IsoAt(t), totalAnswers |-> 1,
         correctAnswers |-> 0, wrongAnswers |-> 1, scorePercent |-> 0,
         retryMode |-> FALSE,
         answers |-> <<[questionId |-> q.id, category |-> q.category,
                        selectedIndex |-> 1, correctIndex |-> q.correct,
                        isCorrect |-> FALSE]>>]
      stat == [seen |-> count, correct |-> 0, wrong |-> count, consecutiveCorrect |-> 0,
               mastered |-> FALSE, lastResult |-> "wrong", lastAnsweredAt |-> IsoAt(-1)]
  IN [createdAt |-> IsoAt(0 - count - 1), updatedAt |-> IsoAt(-1),
      sessions |-> [i \in 1..count |-> oldSession(i - count - 1)],
      questionStats |-> <<Entry(q.id, stat)>>,
      errorPoolHistory |-> [i \in 1..count |->
                              [at |-> IsoAt(i - count - 1), questionIds |-> <<q.id>>]],
      preferences |-> [theme |-> "system"]]

\* The same store with both lists cut as scoreAndPersistSession cuts them
KeptStoreAfter(count) ==
  [StoreAfter(count) EXCEPT !.sessions = SliceLast(@, MAX_SAVED_SESSIONS),
                            !.errorPoolHistory = SliceLast(@, MAX_ERROR_HISTORY)]

\* Blobs the application wrote, and one it did not: a session list one longer
\* than MAX_SAVED_SESSIONS
LongBlobs ==
  {persistResults(KeptStoreAfter(count)) :
     count \in {MAX_ERROR_HISTORY - 1, MAX_SAVED_SESSIONS - 1, MAX_SAVED_SESSIONS}}
  \cup {persistResults([KeptStoreAfter(MAX_SAVED_SESSIONS + 1) EXCEPT
                          !.sessions = StoreAfter(MAX_SAVED_SESSIONS + 1).sessions])}

InitLoaded == \E blob \in LongBlobs : Start(BankOfOne, blob, NoItem)

NextLoaded ==
  \/ Boot
  \/ Tick
  \/ startQuiz
  \/ \E optionIndex \in ClickedOptions : selectAnswer(optionIndex)
  \/ submitQuiz
  \/ /\ clock < MaxFaultyCalls
     /\ \E answerMap \in FaultyAnswerMaps(BankOfOne) :
          ScoreCall(BankOfOne, answerMap, FALSE)

SpecLoaded == InitLoaded /\ [][NextLoaded]_vars

-----------------------------------------------------------------------------
\* The application with its theme button, started on each kind of stored
\* theme: none, a valid one, and a text that is no theme

StoredThemes == {NoItem, ThemeText("dark"), ThemeText("sepia")}

InitTheme == \E themeItem \in StoredThemes : Start(BankOfTwo, NoItem, themeItem)

NextTheme ==
  \/ Boot
  \/ Tick
  \/ toggleTheme
  \/ startQuiz
  \/ \E optionIndex \in ClickedOptions : selectAnswer(optionIndex)
  \/ Forward
  \/ submitQuiz
  \/ \E confirmed \in BOOLEAN : resetProgress(confirmed)

SpecTheme == InitTheme /\ [][NextTheme]_vars

-----------------------------------------------------------------------------
\* The application started on whatever the two storage keys may hold

\* Raw stats: a blank key, and fields of the wrong type
RawStats ==
  JObj(<< Entry("  ", JObj(<< Entry("seen", JNum(1)) >>)),
          Entry("q0001", JObj(<< Entry("seen", JStr("-3")),
                                 Entry("correct", JStr(" 12abc")),
                                 Entry("wrong", JNum(-1)),
                                 Entry("consecutiveCorrect", JNull),
                                 Entry("mastered", JStr("yes")),
                                 Entry("lastResult", JStr("maybe")),
                                 Entry("lastAnsweredAt", JArr(<<>>)) >>)),
          Entry("q0002", JNull),
          Entry("q0003", JArr(<< JNum(4) >>)) >>)

\* Raw sessions: entries that are no objects, answers without a usable
\* questionId, counts that do not add up
RawSessions ==
  JArr(<< JNull,
          JNum(5),
          JObj(<< Entry("id", JStr("  ")),
                  Entry("totalAnswers", JNum(1)),
                  Entry("correctAnswers", JNum(3)),
                  Entry("wrongAnswers", JStr("2")),
                  Entry("retryMode", JNum(1)),
                  Entry("answers",
                        JArr(<< JNull,
                                JObj(<< Entry("questionId", JStr("  ")) >>),
                                JObj(<< Entry("questionId", JNum(7)),
                                        Entry("selectedIndex", JStr("x")),
                                        Entry("isCorrect", JStr("")) >>) >>)) >>),
          JObj(<< Entry("scorePercent", JBool(TRUE)), Entry("answers", JStr("none")) >>) >>)

\* Raw history: entries that are no objects, ids that are blank
RawHistory ==
  JArr(<< JStr("x"),
          JObj(<< Entry("at", JNum(0)),
                  Entry("questionIds", JArr(<< JStr(" "), JNull, JStr(" q0001 "),
                                               JArr(<< JNum(1), JNum(2) >>) >>)) >>),
          JObj(<< Entry("questionIds", JObj(<<>>)) >>) >>)

\* Parsed blobs that are no records
NonRecordValues == {JNull, JNum(7), JStr("x"), JBool(TRUE), JArr(<< JNum(1) >>)}

\* Parsed blobs that are records: empty, with fields of the wrong type, with
\* another valid theme, with a theme that is none
RecordValues ==
  { JObj(<<>>),
    JObj(<< Entry("createdAt", JNum(5)), Entry("updatedAt", JStr("  ")),
            Entry("sessions", JStr("nope")), Entry("questionStats", JArr(<< JNull >>)),
            Entry("errorPoolHistory", JObj(<<>>)), Entry("preferences", JStr("dark")) >>),
    JObj(<< Entry("createdAt", JStr("T-5")), Entry("updatedAt", JStr("T-4")),
            Entry("sessions", RawSessions), Entry("questionStats", RawStats),
            Entry("errorPoolHistory", RawHistory),
            Entry("preferences", JObj(<< Entry("theme", JStr("light")) >>)) >>),
    JObj(<< Entry("createdAt", JStr("T-5")),
            Entry("preferences", JObj(<< Entry("theme", JStr("sepia")) >>)) >>) }

\* A record with a field whose value owns a property named toString
HostileValue ==
  JObj(<< Entry("createdAt", JObj(<< Entry("toString", JNum(1)) >>)) >>)

StartupBlobs ==
  {NoItem, Unparsable}
    \cup {JsonText(v) : v \in NonRecordValues \cup RecordValues \cup {HostileValue}}

InitStartup ==
  \E blob \in StartupBlobs :
    \E themeItem \in StoredThemes : Start(BankOfOne, blob, themeItem)

NextStartup ==
  \/ Boot
  \/ Tick
  \/ toggleTheme
  \/ startQuiz
  \/ \E optionIndex \in ClickedOptions : selectAnswer(optionIndex)
  \/ submitQuiz

SpecStartup == InitStartup /\ [][NextStartup]_vars

-----------------------------------------------------------------------------
\* The application with its three filter controls

\* The options of the category select: "Alle" and the categories of the bank
SelectableCategories == {""} \cup listAvailableCategories(ALL_QUESTIONS)

NextControls ==
  \/ Boot
  \/ \E typed \in TypedLimits : SetLimit(typed)
  \/ \E category \in SelectableCategories : SetSelectedCategory(category)
  \/ \E checked \in BOOLEAN : SetRetryMode(checked)
  \/ startQuiz
  \/ \E optionIndex \in ClickedOptions : selectAnswer(optionIndex)
  \/ submitQuiz

SpecControls == Init /\ [][NextControls]_vars

-----------------------------------------------------------------------------
\* The application over a bank normalised from raw question records

\* Raw option lists: none, no array, empty, short, with blank and null
\* entries, with entries that are no strings, exactly four, more than four
RawOptionLists ==
  { JUndefined,
    JStr("A,B,C,D"),
    JArr(<<>>),
    JArr(<< JStr("A") >>),
    JArr(<< JStr("  "), JStr(" B "), JNull, JStr("C") >>),
    JArr(<< JNum(7), JBool(FALSE), JObj(<<>>) >>),
    JArr(<< JStr("A"), JStr("B"), JStr("C"), JStr("D") >>),
    JArr(<< JStr("A"), JStr(""), JStr("B"), JStr("C"), JStr("D"), JStr("E") >>) }

\* Raw values of correct: missing, negative, in range, too large, no integer,
\* no number
RawCorrectValues ==
  {JUndefined, JNull, JNum(-1), JNum(0), JNum(3), JNum(4), JHalf(1), JStr("2"), JBool(TRUE)}

\* The fields of a raw record that are present
RawRecord(options, correct) ==
  JObj(SelectSeq(<< Entry("id", JStr(" qa ")), Entry("topic", JStr("Recht")),
                    Entry("options", options), Entry("correct", correct) >>,
                 LAMBDA entry : entry.value # JUndefined))

\* Raw question records, and raw values that are no records
RawQuestions ==
  {RawRecord(options, correct) : options \in RawOptionLists, correct \in RawCorrectValues}
    \cup {JNull, JStr("Frage"), JArr(<< JNum(2) >>)}

\* questions.json holds one raw question
InitBank ==
  \E raw \in RawQuestions : Start(LoadQuestions(JArr(<< raw >>)), NoItem, NoItem)

NextBank ==
  \/ Boot
  \/ startQuiz
  \/ \E optionIndex \in 0..3 : selectAnswer(optionIndex)
  \/ submitQuiz

SpecBank == InitBank /\ [][NextBank]_vars

-----------------------------------------------------------------------------
\* Category rollup

RECURSIVE localeCompare(_, _)
\* a.localeCompare(b, "de") for texts of unaccented letters: -1, 0 or 1 by
\* the first letter that differs, case ignored; of two texts that differ in
\* case only, the one with the small letter at the first difference is first
localeCompare(a, b) ==
  LET Rank(c) == IF \E i \in 1..Len(LowerCase) : SubSeq(LowerCase, i, i) = LowerChar(c)
                   THEN CHOOSE i \in 1..Len(LowerCase) : SubSeq(LowerCase, i, i) = LowerChar(c)
                   ELSE 0
      RECURSIVE ByLetter(_), ByCase(_)
      ByLetter(i) ==
        IF i > Len(a) /\ i > Len(b) THEN 0
        ELSE IF i > Len(a) THEN -1
        ELSE IF i > Len(b) THEN 1
        ELSE IF Rank(SubSeq(a, i, i)) < Rank(SubSeq(b, i, i)) THEN -1
        ELSE IF Rank(SubSeq(a, i, i)) > Rank(SubSeq(b, i, i)) THEN 1
        ELSE ByLetter(i + 1)
      ByCase(i) ==
        IF i > Len(a) THEN 0
        ELSE IF SubSeq(a, i, i) = SubSeq(b, i, i) THEN ByCase(i + 1)
        ELSE IF SubSeq(a, i, i) = LowerChar(SubSeq(a, i, i)) THEN -1 ELSE 1
  IN IF ByLetter(1) # 0 THEN ByLetter(1) ELSE ByCase(1)

RECURSIVE CategoryBuckets(_, _, _)
\* The loop of buildCategoryStats over the questions: byCategory in the
\* insertion order of the Map
CategoryBuckets(byCategory, questions, questionStats) ==
  IF questions = <<>> THEN byCategory
  ELSE LET Added(bucket, stat) ==
             [bucket EXCEPT !.seen = @ + stat.seen,
                            !.correct = @ + stat.correct,
                            !.wrong = @ + stat.wrong,
                            !.mastered = @ + (IF stat.mastered THEN 1 ELSE 0)]
           Counted(key, stat) ==
             Put(byCategory, key,
                 Added(IF Has(byCategory, key) THEN Get(byCategory, key)
                       ELSE [category |-> key, seen |-> 0, correct |-> 0, wrong |-> 0,
                             mastered |-> 0, accuracyPercent |-> 0],
                       stat))
           Visited(question) ==
             IF \/ ~Has(questionStats, question.id)
                \/ Get(questionStats, question.id).seen <= 0
               THEN byCategory
               ELSE Counted(IF question.category # "" THEN question.category
                            ELSE "Allgemein",
                            Get(questionStats, question.id))
       IN CategoryBuckets(Visited(Head(questions)), Tail(questions), questionStats)

RECURSIVE SortCategories(_)
\* categories.sort((a, b) => b.seen - a.seen || a.category.localeCompare(...)):
\* a stable sort, as an insertion of the last element into the sorted rest
SortCategories(categories) ==
  IF categories = <<>> THEN <<>>
  ELSE LET Inserted(sorted, x) ==
             LET before == {i \in DOMAIN sorted :
                              \/ sorted[i].seen > x.seen
                              \/ /\ sorted[i].seen = x.seen
                                 /\ localeCompare(sorted[i].category, x.category) <= 0}
             IN [i \in 1..(Len(sorted) + 1) |->
                   IF i <= Cardinality(before) THEN sorted[i]
                   ELSE IF i = Cardinality(before) + 1 THEN x
                   ELSE sorted[i - 1]]
       IN Inserted(SortCategories(SubSeq(categories, 1, Len(categories) - 1)),
                   categories[Len(categories)])

\* A rollup left in the insertion order of the Map
buildCategoryStatsUnsorted(questionStats, questions) ==
  LET buckets == CategoryBuckets(<<>>, questions, questionStats)
  IN [i \in DOMAIN buckets |->
        [buckets[i].value EXCEPT
           !.accuracyPercent = IF buckets[i].value.seen > 0
                                 THEN RoundPercent(buckets[i].value.correct,
                                                   buckets[i].value.seen)
                                 ELSE 0]]

\* buildCategoryStats(questionStats, questions)
buildCategoryStats(questionStats, questions) ==
  LET buckets == CategoryBuckets(<<>>, questions, questionStats)
  IN SortCategories(
       [i \in DOMAIN buckets |->
          [buckets[i].value EXCEPT
             !.accuracyPercent = IF buckets[i].value.seen > 0
                                   THEN RoundPercent(buckets[i].value.correct,
                                                     buckets[i].value.seen)
                                   ELSE 0]])

-----------------------------------------------------------------------------
\* Properties of the session scorer

\* Every answer of the stored sessions, oldest first
RECURSIVE AllAnswers(_)
AllAnswers(sessions) ==
  IF sessions = <<>> THEN <<>> ELSE Head(sessions).answers \o AllAnswers(Tail(sessions))

\* The answers given to one question over the stored sessions, oldest first
AnswersTo(id) == SelectSeq(AllAnswers(results.sessions), LAMBDA a : a.questionId = id)

\* The number of answers at the end of a list that hit the correct index
RECURSIVE TrailingCorrect(_)
TrailingCorrect(given) ==
  IF given = <<>> \/ given[Len(given)].selectedIndex # given[Len(given)].correctIndex
    THEN 0
    ELSE 1 + TrailingCorrect(SubSeq(given, 1, Len(given) - 1))

\* C1: for a question that starts without a stat, after any sequence of
\* successful scorings its consecutiveCorrect is the number of correct answers
\* since its last wrong one (0 right after a wrong answer), and it is mastered
\* exactly when that number has reached 3: mastery comes with the 3rd
\* consecutive correct answer, never earlier, and one wrong answer revokes it.
C1_MasteryAtThirdConsecutiveCorrect ==
  booted =>
    \A i \in DOMAIN results.questionStats :
      LET stat == results.questionStats[i].value
          streak == TrailingCorrect(AnswersTo(results.questionStats[i].key))
      IN /\ stat.consecutiveCorrect = streak
         /\ stat.mastered = (streak >= 3)

\* Three correct answers in a row and then a wrong one: mastery was granted
\* and has been revoked
C1_MasteredThenMissed ==
  \E i \in DOMAIN results.questionStats :
    LET stat == results.questionStats[i].value
    IN /\ stat.seen = 4 /\ stat.correct = 3 /\ stat.lastResult = "wrong"
       /\ ~stat.mastered /\ stat.consecutiveCorrect = 0

-----------------------------------------------------------------------------
\* Properties of the retry pool

\* The ids whose stat has wrong > 0 and is not mastered
MissedAndNotMastered(questionStats) ==
  {questionStats[i].key : i \in {j \in DOMAIN questionStats :
                                   /\ questionStats[j].value.wrong > 0
                                   /\ questionStats[j].value.mastered = FALSE}}

\* C2: in every store the application holds, getRetryPool lists exactly the
\* ids whose stat has wrong > 0 and mastered = false, each once (so an id with
\* wrong = 0 is never listed, whatever its seen), summary.retryPoolSize is the
\* size of that set, and a retry-mode selection over the whole bank returns
\* exactly the bank's questions whose id is in that set.
C2_RetryPoolIsMissedAndNotMastered ==
  booted =>
    LET expected == MissedAndNotMastered(results.questionStats)
        retryPool == getRetryPool(results.questionStats)
    IN /\ Range(retryPool) = expected
       /\ Len(retryPool) = Cardinality(expected)
       /\ buildSummary(results, retryPool).retryPoolSize = Cardinality(expected)
       /\ \A selected \in selectQuestions(ALL_QUESTIONS, results,
                                          [limit |-> MAX_LIMIT, category |-> "",
                                           retryMode |-> TRUE]) :
            IdsOf(selected) = expected \cap IdsOf(ALL_QUESTIONS)

\* One question is in the pool while another, missed once and mastered since,
\* is not
C2_PoolBesideMasteredMiss ==
  /\ getRetryPool(results.questionStats) # <<>>
  /\ \E i \in DOMAIN results.questionStats :
       /\ results.questionStats[i].value.wrong > 0
       /\ results.questionStats[i].value.mastered

-----------------------------------------------------------------------------
\* Properties of a scoring call, stated over the parameters of the call

\* The positions of a question list whose answer is absent or out of range
InvalidPositions(questions, answerMap) ==
  {i \in DOMAIN questions :
     \/ questions[i].id \notin DOMAIN answerMap
     \/ answerMap[questions[i].id] \notin 0..(Len(questions[i].options) - 1)}

\* C3: a scoring call over a question list with an absent or out-of-range
\* answer at any position leaves the store and its persisted blob exactly as
\* they were: no stat of an earlier question, no session, no history entry and
\* no updatedAt changes.
C3_FailedScoringLeavesStore ==
  [][\A questions \in FaultyQuizzes :
       \A answerMap \in FaultyAnswerMaps(questions) :
         (/\ InvalidPositions(questions, answerMap) # {}
          /\ \E retry \in BOOLEAN : ScoreCall(questions, answerMap, retry))
           => /\ results' = results
              /\ storedResults' = storedResults
              /\ latestSession' = latestSession]_vars

\* A store that holds a session, after a call that failed on the out-of-range
\* answer of the last of three questions
C3_FailedAtLastQuestion ==
  /\ notice = ErrorNotice([error |-> "range", questionId |-> WholeBankQuiz[3].id])
  /\ Len(results.sessions) = 1

\* The number of positions of a question list answered by the correct index
CorrectCount(questions, answerMap) ==
  Cardinality({i \in DOMAIN questions : answerMap[questions[i].id] = questions[i].correct})

\* C5: the session a successful scoring call creates and appends has
\* totalAnswers = the number of questions scored, correctAnswers = the number
\* of them answered by their correct index, wrongAnswers = the difference,
\* scorePercent = an integer nearest to correctAnswers / totalAnswers * 100
\* (2 of 3 gives 67), within 0..100, and one answer per
\* question in the order of the question list.
C5_SessionAggregates ==
  [][\A questions \in FaultyQuizzes :
       \A answerMap \in FaultyAnswerMaps(questions) :
         (/\ InvalidPositions(questions, answerMap) = {}
          /\ \E retry \in BOOLEAN : ScoreCall(questions, answerMap, retry))
           => LET session == results'.sessions[Len(results'.sessions)]
                  total == Len(questions)
                  correct == CorrectCount(questions, answerMap)
              IN /\ latestSession' = <<session>>
                 /\ session.totalAnswers = total
                 /\ session.correctAnswers = correct
                 /\ session.wrongAnswers = total - correct
                 /\ session.scorePercent \in 0..100
                 /\ 2 * session.scorePercent * total - total <= 200 * correct
                 /\ 200 * correct <= 2 * session.scorePercent * total + total
                 /\ (total = 3 /\ correct = 2) => session.scorePercent = 67
                 /\ session.answers =
                      [i \in DOMAIN questions |->
                         [questionId |-> questions[i].id,
                          category |-> questions[i].category,
                          selectedIndex |-> answerMap[questions[i].id],
                          correctIndex |-> questions[i].correct,
                          isCorrect |-> answerMap[questions[i].id] = questions[i].correct]]
    ]_vars

\* A session of three questions, two of them answered correctly
C5_TwoOfThree ==
  /\ latestSession # <<>>
  /\ latestSession[1].totalAnswers = 3
  /\ latestSession[1].correctAnswers = 2
  /\ latestSession[1].wrongAnswers = 1
  /\ latestSession[1].scorePercent = 67

\* C6: right after a successful scoring, every question answered wrong in
\* the session is in the retry pool of the resulting store, also a question
\* that was mastered before the session.
C6_MissedQuestionsEnterRetryPool ==
  (booted /\ latestSession # <<>>) =>
    /\ latestSession[1] = results.sessions[Len(results.sessions)]
    /\ \A i \in DOMAIN latestSession[1].answers :
         LET answer == latestSession[1].answers[i]
         IN answer.selectedIndex # answer.correctIndex
              => answer.questionId \in Range(getRetryPool(results.questionStats))

\* The latest session missed a question that three correct answers in a row
\* had mastered, and the question is in the retry pool
C6_MasteredQuestionMissed ==
  /\ latestSession # <<>>
  /\ \E i \in DOMAIN latestSession[1].answers :
       LET answer == latestSession[1].answers[i]
       IN /\ answer.selectedIndex # answer.correctIndex
          /\ Len(AnswersTo(answer.questionId)) = 4
          /\ TrailingCorrect(SubSeq(AnswersTo(answer.questionId), 1, 3)) = 3
          /\ answer.questionId \in Range(getRetryPool(results.questionStats))

-----------------------------------------------------------------------------
\* Properties of the handlers

\* C4: submitQuiz while an active question has no recorded answer changes
\* neither the store (sessions, questionStats, errorPoolHistory, updatedAt)
\* nor its persisted blob, and keeps the active questions, the answers given
\* and the current position.
C4_IncompleteSubmitRejected ==
  [][(/\ \E i \in DOMAIN activeQuestions : activeQuestions[i].id \notin DOMAIN answers
      /\ submitQuiz)
       => /\ results' = results
          /\ storedResults' = storedResults
          /\ activeQuestions' = activeQuestions
          /\ answers' = answers
          /\ currentIndex' = currentIndex
          /\ latestSession' = latestSession
          /\ notice' = MissingNotice(Cardinality({i \in DOMAIN activeQuestions :
                                                   activeQuestions[i].id \notin DOMAIN answers}))
    ]_vars

\* A quiz of two questions was submitted with one answer given, on a store
\* that already holds a session
C4_RejectedWithOneMissing ==
  /\ notice = MissingNotice(1)
  /\ Len(activeQuestions) = 2
  /\ DOMAIN answers # {}
  /\ Len(results.sessions) = 1

\* C7: a confirmed resetProgress keeps createdAt and leaves sessions,
\* questionStats and errorPoolHistory empty, so that the retry pool is empty
\* and every count of the summary is zero.
C7_ResetKeepsCreatedAt ==
  [][resetProgress(TRUE)
       => /\ results'.createdAt = results.createdAt
          /\ results'.sessions = <<>>
          /\ results'.questionStats = <<>>
          /\ results'.errorPoolHistory = <<>>
          /\ getRetryPool(results'.questionStats) = <<>>
          /\ buildSummary(results', getRetryPool(results'.questionStats)) =
               [totalSessions |-> 0, totalAnswers |-> 0, correctAnswers |-> 0,
                wrongAnswers |-> 0, accuracyPercent |-> 0, masteredQuestions |-> 0,
                retryPoolSize |-> 0, lastSessionAt |-> NULL]
    ]_vars

\* The store was reset after a session had been saved, later than it was
\* created
C7_ResetAfterSession ==
  /\ notice = ResetNotice
  /\ submits > 0
  /\ results.sessions = <<>>
  /\ results.createdAt = IsoAt(0)
  /\ results.updatedAt = IsoAt(1)

-----------------------------------------------------------------------------
\* Properties of the stored lists

\* C8: in every store the application holds, loaded from the persisted blob
\* or produced by scoring and reset, sessions has at most 200 entries.
C8_AtMostTwoHundredSessions ==
  booted => Len(results.sessions) <= 200

\* The successful scoring steps and the failed or rejected ones of the
\* application started on a long history
ScoredStep ==
  \/ /\ \A i \in DOMAIN activeQuestions : activeQuestions[i].id \in DOMAIN answers
     /\ submitQuiz
  \/ \E answerMap \in FaultyAnswerMaps(BankOfOne) :
       /\ InvalidPositions(BankOfOne, answerMap) = {}
       /\ ScoreCall(BankOfOne, answerMap, FALSE)

RefusedStep ==
  \/ /\ \E i \in DOMAIN activeQuestions : activeQuestions[i].id \notin DOMAIN answers
     /\ submitQuiz
  \/ \E answerMap \in FaultyAnswerMaps(BankOfOne) :
       /\ InvalidPositions(BankOfOne, answerMap) # {}
       /\ ScoreCall(BankOfOne, answerMap, FALSE)

\* C9: a successful scoring appends one history entry, stamped like the
\* store, that lists each id of the updated stats with wrong > 0 and not
\* mastered once, as many ids as the retryPoolSize it returns, and then keeps
\* the last 100 entries; a failed or rejected submission leaves the history
\* as it was.
C9_OneHistoryEntryPerScoring ==
  [][/\ ScoredStep =>
          LET entry == results'.errorPoolHistory[Len(results'.errorPoolHistory)]
              appended == Append(results.errorPoolHistory, entry)
          IN /\ entry.at = results'.updatedAt
             /\ Range(entry.questionIds) = MissedAndNotMastered(results'.questionStats)
             /\ Len(entry.questionIds) =
                  Cardinality(MissedAndNotMastered(results'.questionStats))
             /\ notice'.retryPoolSize = Len(entry.questionIds)
             /\ results'.errorPoolHistory =
                  IF Len(appended) > 100
                    THEN SubSeq(appended, Len(appended) - 99, Len(appended))
                    ELSE appended
             /\ Len(results'.errorPoolHistory) <= 100
     /\ RefusedStep => results'.errorPoolHistory = results.errorPoolHistory
    ]_vars

\* The history holds 100 entries again after a scoring dropped its oldest one
C9_HistoryTrimmed ==
  /\ latestSession # <<>>
  /\ Len(results.errorPoolHistory) = 100
  /\ results.errorPoolHistory[100].at = latestSession[1].submittedAt
  /\ results.errorPoolHistory[1].at = IsoAt(-99)
  /\ Len(results.sessions) = 200

-----------------------------------------------------------------------------
\* Properties of the persisted blob

\* C10: normalizeResults applied to the JSON serialisation of the store the
\* application holds returns that store, field by field, whatever the
\* fallback theme and the time of the call.
C10_NormalizeAfterSerializeIsIdentity ==
  booted =>
    \A fallbackTheme \in ThemePreferences :
      normalizeResults(safeParseJson(persistResults(results)), fallbackTheme, clock + 1)
        = results

\* A store that holds a session of two answers and a stat with a streak,
\* after the theme was changed
C10_ScoredAndThemed ==
  /\ booted
  /\ results.preferences.theme = "light"
  /\ Len(results.sessions) = 2
  /\ Len(results.sessions[1].answers) = 2
  /\ \E i \in DOMAIN results.questionStats :
       results.questionStats[i].value.consecutiveCorrect = 2

-----------------------------------------------------------------------------
\* Properties of loading

\* A store of the shape the claims call structurally valid
StructurallyValid(res) ==
  /\ res.preferences.theme \in {"system", "light", "dark"}
  /\ res.createdAt # "" /\ res.updatedAt # ""
  /\ \A i \in DOMAIN res.questionStats :
       LET stat == res.questionStats[i].value
       IN /\ res.questionStats[i].key # ""
          /\ stat.seen \in Nat /\ stat.correct \in Nat /\ stat.wrong \in Nat
          /\ stat.consecutiveCorrect \in Nat
          /\ stat.mastered \in BOOLEAN
          /\ stat.lastResult \in {"correct", "wrong", NULL}
  /\ \A i \in DOMAIN res.sessions :
       LET session == res.sessions[i]
       IN /\ session.id # "" /\ session.submittedAt # ""
          /\ session.totalAnswers \in Nat /\ session.correctAnswers \in Nat
          /\ session.wrongAnswers \in Nat /\ session.scorePercent \in Nat
          /\ session.retryMode \in BOOLEAN
          /\ \A j \in DOMAIN session.answers :
               /\ session.answers[j].questionId # ""
               /\ session.answers[j].selectedIndex \in Nat
               /\ session.answers[j].correctIndex \in Nat
               /\ session.answers[j].isCorrect \in BOOLEAN
  /\ \A i \in DOMAIN res.errorPoolHistory :
       /\ res.errorPoolHistory[i].at # ""
       /\ \A j \in DOMAIN res.errorPoolHistory[i].questionIds :
            res.errorPoolHistory[i].questionIds[j] # ""

\* Once loading has returned, its store is structurally valid, and it is the
\* default store when the stored text is missing, unparsable or no record
LoadedStoreValid ==
  (~booted /\ ~loadBootstrapStateThrows(storedResults)) =>
    \E loaded \in {loadBootstrapState(storedResults, storedTheme, clock)} :
      /\ StructurallyValid(loaded.results)
      /\ (storedResults.t = "json" => storedResults.v \notin RecordValues)
           => loaded.results = defaultResults(loaded.theme, IsoAt(clock))

\* C11: whatever the results key holds (nothing, unparsable text, null, a
\* scalar, an array, a record with missing or wrongly typed fields), loading
\* does not raise and yields a structurally valid store, the default store
\* for a value that is no record.
C11_LoadingNeverRaises ==
  /\ ~booted => ~loadBootstrapStateThrows(storedResults)
  /\ LoadedStoreValid

-----------------------------------------------------------------------------
\* Properties of the quiz selector

\* The questions of the bank that pass the filters: of the category, letter
\* case ignored, when one is given, and in the retry pool in retry mode
Filtered(category, retry) ==
  {q \in Range(ALL_QUESTIONS) :
     /\ category # "" => toLowerCase(q.category) = toLowerCase(category)
     /\ retry => q.id \in MissedAndNotMastered(results.questionStats)}

\* `selected` is a sample of `count` pairwise distinct questions of `pool`
IsSample(selected, count, pool) ==
  /\ Len(selected) = count
  /\ \A i \in DOMAIN selected : selected[i] \in pool
  /\ \A i, j \in DOMAIN selected : i # j => selected[i] # selected[j]

\* What selectQuestions can return for one choice of options
SelectionHolds(lim, category, retry) ==
  \E pool \in {Filtered(category, retry)} :
    \E outcomes \in {selectQuestions(ALL_QUESTIONS, results,
                                     [limit |-> lim, category |-> category,
                                      retryMode |-> retry])} :
      /\ outcomes # {}
      /\ \A selected \in outcomes : IsSample(selected, Min(lim, Cardinality(pool)), pool)
      /\ (retry /\ MissedAndNotMastered(results.questionStats) = {}) => outcomes = {<<>>}
      /\ Min(lim, Cardinality(pool)) >= 1 =>
           \A q \in pool : \E selected \in outcomes : selected[1] = q

\* C12: selectQuestions returns exactly min(limit, |F|) pairwise distinct
\* questions of F, the bank filtered by the category (letter case ignored)
\* when one is given and, in retry mode, by membership in the retry pool; in
\* retry mode with an empty retry pool it returns no question, and every
\* question of F can come first, so more than one ordering is reachable.
\* Stated for the limit, the category (as selected and in lower case) and
\* the mode the controls hold; startQuiz makes one of these selections the
\* active quiz.
C12_SelectionIsSampleOfFilter ==
  /\ [](booted => \A category \in {selectedCategory, toLowerCase(selectedCategory)} :
                    SelectionHolds(clampPositiveInt(limit, DEFAULT_LIMIT), category,
                                   retryMode))
  /\ [][startQuiz =>
          IsSample(activeQuestions',
                   Min(clampPositiveInt(limit, DEFAULT_LIMIT),
                       Cardinality(Filtered(selectedCategory, retryMode))),
                   Filtered(selectedCategory, retryMode))]_vars

\* A retry-mode quiz on the category "Recht" started while both questions of
\* the bank are in the retry pool
C12_RetryQuizOfOneCategory ==
  /\ retryMode /\ selectedCategory = "Recht"
  /\ MissedAndNotMastered(results.questionStats) = {"q0001", "q0002"}
  /\ activeQuestions = <<BankOfThree[2]>>
  /\ notice = LoadedNotice(1, TRUE, "Recht")

-----------------------------------------------------------------------------
\* Properties of the quiz in progress

\* C13: starting a quiz, choosing an answer (by click or by the keys 1 to 4)
\* and moving between questions (by button or by arrow key) leave the results
\* store and the persisted blob as they were: the answers given so far are
\* only in memory.
C13_QuizStepsLeaveStore ==
  [][(\/ startQuiz
      \/ \E optionIndex \in ClickedOptions : selectAnswer(optionIndex)
      \/ \E key \in PressedKeys : handleKeyboard(key)
      \/ Back
      \/ Forward)
       => /\ results' = results
          /\ storedResults' = storedResults]_vars

\* Both questions of a quiz answered and the second one shown, after an
\* earlier session at clock 0: the store still holds that one session
C13_AnsweredNotSubmitted ==
  /\ Len(activeQuestions) = 2 /\ currentIndex = 1
  /\ DOMAIN answers = {"q0001", "q0002"}
  /\ latestSession = <<>>
  /\ clock = 1
  /\ Len(results.sessions) = 1 /\ results.updatedAt = IsoAt(0)
  /\ storedResults = persistResults(results)

-----------------------------------------------------------------------------
\* Properties of the store across a scoring

\* C14: a scoring call writes to no object of the store it was given (the
\* questionStats object and every stat behind it read as before, whether the
\* call returns or throws), and the store a successful call returns differs
\* from the given one only in updatedAt, sessions, errorPoolHistory and the
\* stats of the questions scored: createdAt, preferences and the stat of
\* every other question are equal in both.
C14_ScoringCopiesOnWrite ==
  [][\A questions \in FaultyQuizzes :
       \A answerMap \in FaultyAnswerMaps(questions) :
         (\E retry \in BOOLEAN : ScoreCall(questions, answerMap, retry))
           => \E mem \in {ScoreOnHeap(results.questionStats, questions, answerMap,
                                      IsoAt(clock'))} :
                /\ StatsAt(mem.heap, 1) = results.questionStats
                /\ mem.threw = (InvalidPositions(questions, answerMap) # {})
                /\ ~mem.threw =>
                     /\ StatsAt(mem.heap, mem.next) = results'.questionStats
                     /\ DOMAIN results' = DOMAIN results
                     /\ results'.createdAt = results.createdAt
                     /\ results'.preferences = results.preferences
                     /\ KeySet(results'.questionStats) =
                          KeySet(results.questionStats)
                            \cup {questions[i].id : i \in DOMAIN questions}
                     /\ \A id \in KeySet(results.questionStats)
                                   \ {questions[i].id : i \in DOMAIN questions} :
                          Get(results'.questionStats, id) = Get(results.questionStats, id)
    ]_vars

\* The first question scored again after a session on the whole bank, whose
\* other two stats are then those of that session
C14_OneOfThreeScoredAgain ==
  /\ Len(results.sessions) = 2
  /\ Len(results.sessions[1].answers) = 3 /\ Len(results.sessions[2].answers) = 1
  /\ Get(results.questionStats, "q0001").seen = 2
  /\ Get(results.questionStats, "q0002").lastAnsweredAt = results.sessions[1].submittedAt
  /\ Get(results.questionStats, "q0003").seen = 1

-----------------------------------------------------------------------------
\* Properties of persistence

\* C15: in every state a handler can start from (the effects of the previous
\* theme change, submission or reset have run), the text under the results
\* key is the serialisation of the store in memory and the text under the
\* theme key is the theme preference in memory, which is also the theme of
\* the store: no handler sees a store newer than the persisted one.
C15_PersistedIsInMemory ==
  booted => /\ storedResults = persistResults(results)
            /\ storedTheme = ThemeText(themePreference)
            /\ results.preferences.theme = themePreference

\* The theme changed at clock 1 after a session saved at clock 0 by an
\* application that found no valid theme key
C15_ThemeChangedAfterSession ==
  /\ booted
  /\ notice = ThemeNotice("light")
  /\ Len(results.sessions) = 1 /\ results.sessions[1].submittedAt = IsoAt(0)
  /\ results.updatedAt = IsoAt(1)
  /\ storedTheme = ThemeText("light")

-----------------------------------------------------------------------------
\* Properties of the theme at startup

\* The theme the stored results text holds, NULL when it holds no valid one
BlobTheme(item) ==
  IF /\ item.t = "json" /\ item.v.t = "obj"
     /\ \E i \in DOMAIN item.v.o :
          /\ item.v.o[i].key = "preferences" /\ item.v.o[i].value.t = "obj"
          /\ \E j \in DOMAIN item.v.o[i].value.o :
               /\ item.v.o[i].value.o[j].key = "theme"
               /\ item.v.o[i].value.o[j].value \in {JStr("system"), JStr("light"), JStr("dark")}
    THEN Field(Field(item.v, "preferences"), "theme").s
    ELSE NULL

\* C16: when the application has started, the theme preference and the
\* theme of the loaded store are both the theme key's value if that is
\* system, light or dark, whatever the results key holds; with the theme key
\* missing or invalid they are the valid theme of the results blob, and
\* system when it has none.
C16_ThemeKeyWinsAtStartup ==
  [][Boot =>
       \E expected \in
            {IF storedTheme \in {ThemeText("system"), ThemeText("light"), ThemeText("dark")}
               THEN storedTheme.s
               ELSE IF BlobTheme(storedResults) # NULL THEN BlobTheme(storedResults)
                    ELSE "system"} :
         /\ themePreference' = expected
         /\ results'.preferences.theme = expected]_vars

\* Started on the theme key dark and a blob that says light, whose sessions
\* were loaded
C16_DarkKeyOverLightBlob ==
  /\ booted /\ notice = ReadyNotice
  /\ themePreference = "dark" /\ results.preferences.theme = "dark"
  /\ results.createdAt = "T-5" /\ results.updatedAt # "T-4"
  /\ results.sessions # <<>>

-----------------------------------------------------------------------------
\* Properties of the recorded sessions

\* C17: the retryMode flag of the session a submission records is the retry
\* mode startQuiz selected the submitted questions with (the mode the notice
\* of startQuiz still shows), whatever was done to the retry-mode checkbox
\* between startQuiz and submitQuiz.
C17_SessionRecordsSelectionMode ==
  [][(/\ notice.kind = "loaded"
      /\ submitQuiz
      /\ submits' = submits + 1)
       => /\ latestSession'[1].retryMode = notice.retryMode
          /\ results'.sessions[Len(results'.sessions)].retryMode = notice.retryMode]_vars

\* C18: the sessions of the store the application holds have pairwise
\* distinct ids, also after two submissions at the same clock value.
C18_SessionIdsDistinct ==
  \A i, j \in DOMAIN results.sessions :
    i # j => results.sessions[i].id # results.sessions[j].id

-----------------------------------------------------------------------------
\* Properties of the question bank

\* A question with exactly four options, none of them blank, and a correct
\* index that names one of them
WellFormedQuestion(q) ==
  /\ Len(q.options) = 4
  /\ \A i \in DOMAIN q.options : Trim(q.options[i]) # ""
  /\ q.correct \in 0..3
  /\ q.id # "" /\ q.question # "" /\ q.category # "" /\ q.explanation # ""

\* The correct index a raw record asks for: its integer in 0..3, else 0
RequestedCorrect(raw) ==
  IF raw.t = "obj" /\ \E n \in 0..3 : Entry("correct", JNum(n)) \in Range(raw.o)
    THEN (CHOOSE n \in 0..3 : Entry("correct", JNum(n)) \in Range(raw.o))
    ELSE 0

\* The options a raw record asks for: the texts of its option entries that
\* are not blank, in their order, the first four of them, then placeholders
RequestedOptions(raw) ==
  LET entries == IF IsArray(Field(raw, "options")) THEN Field(raw, "options").a ELSE <<>>
      Text(i) == IF entries[i].t \in {"null", "undefined"} THEN ""
                 ELSE Trim(JsString(entries[i]))
      filled == {i \in DOMAIN entries : Text(i) # ""}
      Nth(k) == CHOOSE i \in filled : Cardinality({j \in filled : j <= i}) = k
  IN [k \in 1..4 |-> IF k <= Cardinality(filled) THEN Text(Nth(k))
                     ELSE "Option " \o ToString(k)]

-----------------------------------------------------------------------------
\* Properties of the summary

\* The sum of the field totalAnswers or correctAnswers over the first n
\* sessions of the store
RECURSIVE TotalOver(_, _)
TotalOver(field, n) ==
  IF n = 0 THEN 0 ELSE results.sessions[n][field] + TotalOver(field, n - 1)

\* C20: the summary of the store the application holds has totalAnswers and
\* correctAnswers summed over all stored sessions, wrongAnswers their
\* difference, accuracyPercent an integer nearest to correctAnswers /
\* totalAnswers * 100, or 0 without answers, masteredQuestions the number of
\* stats with mastered = true, retryPoolSize the size of the retry pool, and
\* lastSessionAt the submittedAt of the last session of the list, or null
\* without a session.
C20_SummaryOfStore ==
  \E summary \in {buildSummary(results, getRetryPool(results.questionStats))} :
    \E sessionCount \in {Len(results.sessions)} :
      /\ summary.totalSessions = sessionCount
      /\ summary.totalAnswers = TotalOver("totalAnswers", sessionCount)
      /\ summary.correctAnswers = TotalOver("correctAnswers", sessionCount)
      /\ summary.wrongAnswers = summary.totalAnswers - summary.correctAnswers
      /\ summary.totalAnswers = 0 => summary.accuracyPercent = 0
      /\ summary.totalAnswers > 0 =>
           /\ 2 * summary.accuracyPercent * summary.totalAnswers - summary.totalAnswers
                <= 200 * summary.correctAnswers
           /\ 200 * summary.correctAnswers
                <= 2 * summary.accuracyPercent * summary.totalAnswers + summary.totalAnswers
      /\ summary.masteredQuestions =
           Cardinality({i \in DOMAIN results.questionStats :
                          results.questionStats[i].value.mastered = TRUE})
      /\ summary.retryPoolSize = Cardinality(MissedAndNotMastered(results.questionStats))
      /\ summary.lastSessionAt = IF sessionCount = 0 THEN NULL
                                 ELSE results.sessions[sessionCount].submittedAt

\* Four sessions of two questions with 5 of 8 answers correct (62.5 percent,
\* shown as 63), one question mastered and the other in the retry pool
C20_FiveOfEight ==
  /\ Len(results.sessions) = 4
  /\ buildSummary(results, getRetryPool(results.questionStats)).totalAnswers = 8
  /\ buildSummary(results, getRetryPool(results.questionStats)).accuracyPercent = 63
  /\ buildSummary(results, getRetryPool(results.questionStats)).masteredQuestions = 1
  /\ buildSummary(results, getRetryPool(results.questionStats)).retryPoolSize = 1

-----------------------------------------------------------------------------
\* Properties of the category rollup

\* Banks the rollup is computed over: the bank of the application, the same
\* bank in another order, a bank whose first category is last by name, and a
\* bank of one category
RollupBanks ==
  { BankOfThree,
    <<BankOfThree[2], BankOfThree[1], BankOfThree[3]>>,
    <<Question("q0001", "Zoll", 0), BankOfThree[2]>>,
    <<BankOfThree[2], Question("q0001", "Recht", 0)>> }

\* The category names of the banks in ascending order
CategoryOrder == <<"Netzwerke", "Recht", "Zoll">>

CategoryRank(name) == CHOOSE i \in DOMAIN CategoryOrder : CategoryOrder[i] = name

\* The positions of the bank whose question has been seen
SeenPositions(bank) ==
  {i \in DOMAIN bank : /\ Has(results.questionStats, bank[i].id)
                       /\ Get(results.questionStats, bank[i].id).seen > 0}

RECURSIVE CategoryTotal(_, _, _, _)
\* The sum of a counter over the seen questions of a category among the
\* first n of the bank
CategoryTotal(bank, category, Counter(_), n) ==
  IF n = 0 THEN 0
  ELSE (IF n \in SeenPositions(bank) /\ bank[n].category = category
          THEN Counter(Get(results.questionStats, bank[n].id)) ELSE 0)
       + CategoryTotal(bank, category, Counter, n - 1)

RollupHolds(bank, rollup) ==
  LET SeenOf(stat) == stat.seen
      CorrectOf(stat) == stat.correct
      WrongOf(stat) == stat.wrong
      MasteredOf(stat) == IF stat.mastered THEN 1 ELSE 0
  IN /\ {rollup[i].category : i \in DOMAIN rollup}
          = {bank[i].category : i \in SeenPositions(bank)}
     /\ \A i, j \in DOMAIN rollup : i < j =>
          \/ rollup[i].seen > rollup[j].seen
          \/ /\ rollup[i].seen = rollup[j].seen
             /\ CategoryRank(rollup[i].category) < CategoryRank(rollup[j].category)
     /\ \A i \in DOMAIN rollup :
          \E c \in {rollup[i]} :
            /\ c.seen = CategoryTotal(bank, c.category, SeenOf, Len(bank))
            /\ c.correct = CategoryTotal(bank, c.category, CorrectOf, Len(bank))
            /\ c.wrong = CategoryTotal(bank, c.category, WrongOf, Len(bank))
            /\ c.mastered = CategoryTotal(bank, c.category, MasteredOf, Len(bank))
            /\ c.accuracyPercent \in 0..100
            /\ 2 * c.seen * c.accuracyPercent <= 200 * c.correct + c.seen
            /\ 2 * c.seen * c.accuracyPercent >= 200 * c.correct - c.seen
            /\ (c.seen = 3 /\ c.correct = 2) => c.accuracyPercent = 67

\* C21: the category rollup of the question stats over a bank holds a
\* category exactly when a bank question of that category has been seen; its
\* seen, correct and wrong are the sums over those questions, mastered counts
\* the mastered ones, accuracyPercent is an integer nearest to correct / seen
\* * 100 (67 for 2 of 3), and the list is in descending order of seen, equal
\* seen in ascending order of the category name
C21_RollupOfSeenQuestions ==
  booted => \A bank \in RollupBanks :
              \E rollup \in {buildCategoryStats(results.questionStats, bank)} :
                RollupHolds(bank, rollup)

\* C21 witness: a category seen three times with two correct answers is
\* rolled up at 67 percent, ahead of a category seen once that the bank
\* lists first
C21_TwoOfThreeAheadOfOne ==
  /\ booted
  /\ buildCategoryStats(results.questionStats,
                        <<BankOfThree[2], BankOfThree[1], BankOfThree[3]>>)
       = << [category |-> "Netzwerke", seen |-> 3, correct |-> 2, wrong |-> 1,
             mastered |-> 0, accuracyPercent |-> 67],
            [category |-> "Recht", seen |-> 1, correct |-> 1, wrong |-> 0,
             mastered |-> 0, accuracyPercent |-> 100] >>

-----------------------------------------------------------------------------
\* Properties of the loader with respect to the clock

\* C22: normalizeResults gives the same store for the same parsed blob and
\* the same fallback theme whatever the clock reads: the store normalised
\* from the stored blob at any clock value is the one normalised now
C22_NormalizeIgnoresClock ==
  (storedResults.t # "none" /\ ~loadBootstrapStateThrows(storedResults)) =>
    \A fallbackTheme \in {"system", "dark"} :
      \A t \in 0..(MaxClock + 1) :
        normalizeResults(safeParseJson(storedResults), fallbackTheme, t)
          = normalizeResults(safeParseJson(storedResults), fallbackTheme, clock)

-----------------------------------------------------------------------------
\* Properties of the counters of a question stat

\* The stat of a question in a store, the default stat when it has none
StatIn(store, id) ==
  IF Has(store.questionStats, id) THEN Get(store.questionStats, id) ELSE defaultQuestionStat

\* A counter of some question is smaller after the step
CounterDecreases ==
  \E id \in KeySet(results.questionStats) :
    \/ StatIn(results', id).seen < StatIn(results, id).seen
    \/ StatIn(results', id).correct < StatIn(results, id).correct
    \/ StatIn(results', id).wrong < StatIn(results, id).wrong

\* C23: in every store reached from the default store by scorings, rejected
\* submissions, resets and theme changes each stat has correct + wrong =
\* seen, and no counter of a question decreases in a step other than a
\* confirmed reset
C23_CountersAddUpAndGrow ==
  /\ [](\A i \in DOMAIN results.questionStats :
          results.questionStats[i].value.correct + results.questionStats[i].value.wrong
            = results.questionStats[i].value.seen)
  /\ [][CounterDecreases => resetProgress(TRUE)]_vars

\* C23 witness: under a theme that was changed a question has been answered
\* once wrong and then once correctly
C23_OneWrongThenOneCorrect ==
  /\ booted
  /\ results.createdAt # results.updatedAt
  /\ themePreference # "system"
  /\ Has(results.questionStats, "q0001")
  /\ Get(results.questionStats, "q0001").seen = 2
  /\ Get(results.questionStats, "q0001").correct = 1
  /\ Get(results.questionStats, "q0001").wrong = 1
  /\ Get(results.questionStats, "q0001").lastResult = "correct"

-----------------------------------------------------------------------------
\* Properties of the list of newly mastered questions

\* The questions mastered in the store `after` and not in the store `before`
NewlyMastered(before, after) ==
  {id \in KeySet(after.questionStats) :
     StatIn(after, id).mastered /\ ~StatIn(before, id).mastered}

\* The list holds the ids of the set, each once
ListsOnce(list, ids) ==
  /\ Range(list) = ids
  /\ Len(list) = Cardinality(ids)

\* C24: the list of newly mastered ids that a scoring returns holds exactly
\* the questions not mastered (or without stat) in the previous store and
\* mastered in the new store, each once, also for a list that holds a
\* question twice; the saved notice of a submission counts these questions
C24_NewlyMasteredIsTheDifference ==
  /\ [](booted =>
          \A questions \in HarnessQuizzes \cup {<<BankOfThree[1], BankOfThree[1]>>} :
            \A answerMap \in ValidAnswerMaps(questions) :
              \E payload \in {scoreAndPersistSession(
                                [questions |-> questions, answers |-> answerMap,
                                 retryMode |-> FALSE, previousResults |-> results],
                                clock)} :
                /\ ~payload.threw
                /\ ListsOnce(payload.masteredQuestionIds,
                             NewlyMastered(results, payload.nextResults)))
  /\ [][submits' = submits + 1 =>
          notice'.newlyMastered = Cardinality(NewlyMastered(results, results'))]_vars

\* C24 witness: two questions were scored three times; the last scoring
\* newly mastered one of them, the other has a wrong answer in between
C24_OneOfTwoNewlyMastered ==
  /\ notice.kind = "saved"
  /\ notice.totalAnswers = 2
  /\ notice.newlyMastered = 1
  /\ StatIn(results, "q0001").mastered
  /\ StatIn(results, "q0002").seen = 3
  /\ ~StatIn(results, "q0002").mastered

-----------------------------------------------------------------------------
\* Properties of a quiz attempt

\* C25: a quiz attempt contributes at most one session: a submission is
\* scored (a session appended, the counters of its questions incremented)
\* only when no submission has been scored since the quiz was started, that
\* is, while the latest session is still cleared
C25_OneSessionPerAttempt ==
  [][(submitQuiz /\ Len(results'.sessions) > Len(results.sessions))
       => latestSession = <<>>]_vars

-----------------------------------------------------------------------------
\* Properties of the loaded sessions

\* The raw sessions of the stored blob
StoredRawSessions ==
  IF storedResults.t = "none" THEN <<>>
  ELSE LET raw == safeParseJson(storedResults)
       IN IF IsObject(raw) /\ IsArray(Field(raw, "sessions"))
            THEN Field(raw, "sessions").a ELSE <<>>

\* C26: loading keeps a raw session only if it is a record with an answers
\* sequence; every other raw session is dropped, and the sessions kept stay
\* in their order
C26_SessionsWithoutAnswersDropped ==
  [][Boot =>
       \E kept \in {SelectSeq(StoredRawSessions,
                              LAMBDA e : IsObject(e) /\ IsArray(Field(e, "answers")))} :
         results'.sessions = [i \in DOMAIN kept |-> normalizeSession(kept[i], clock)]]_vars

-----------------------------------------------------------------------------
\* Properties of the answers map

\* C27: every key of the answers map is the id of a question of the active
\* list and its value is the index of one of the options of that question;
\* hence a submission with every question answered is scored, the scorer
\* raising neither for a missing nor for an out-of-range answer
C27_AnswersFitActiveQuiz ==
  /\ \A id \in DOMAIN answers :
       \E i \in DOMAIN activeQuestions :
         /\ activeQuestions[i].id = id
         /\ answers[id] \in 0..(Len(activeQuestions[i].options) - 1)
  /\ (Len(activeQuestions) # 0 /\ Len(Unanswered) = 0) =>
       ~scoreAndPersistSession([questions |-> activeQuestions, answers |-> answers,
                                retryMode |-> retryMode, previousResults |-> results],
                               clock).threw

\* C27 witness: a second quiz, started after a scored one, has both of its
\* questions answered with different options and is not yet submitted
C27_SecondQuizAnswered ==
  /\ booted
  /\ Len(results.sessions) = 1
  /\ latestSession = <<>>
  /\ Len(activeQuestions) = 2
  /\ Len(Unanswered) = 0
  /\ answers[activeQuestions[1].id] = 1
  /\ answers[activeQuestions[2].id] = 0

-----------------------------------------------------------------------------
\* Properties of the streak of a question stat

\* C28: in every store reached from the default store by scorings each stat
\* is mastered exactly when its streak of consecutive correct answers is at
\* least three, the streak is at most the number of correct answers, and a
\* stat whose last result is wrong has streak 0 and is not mastered
C28_MasteredIsStreakOfThree ==
  \A i \in DOMAIN results.questionStats :
    \E stat \in {results.questionStats[i].value} :
      /\ stat.mastered <=> stat.consecutiveCorrect >= 3
      /\ stat.consecutiveCorrect <= stat.correct
      /\ stat.lastResult = "wrong" => (stat.consecutiveCorrect = 0 /\ ~stat.mastered)

\* C28 witness: one question with a streak of four, another that lost its
\* mastery to a wrong answer after three correct ones
C28_StreakOfFourBesideLostMastery ==
  /\ StatIn(results, "q0001").consecutiveCorrect = 4
  /\ StatIn(results, "q0001").mastered
  /\ StatIn(results, "q0002").correct = 3
  /\ StatIn(results, "q0002").lastResult = "wrong"
  /\ StatIn(results, "q0002").consecutiveCorrect = 0

-----------------------------------------------------------------------------
\* Properties of the theme across the store, the state and the theme key

\* C29: once the application has started and its effects have run, the theme
\* in the preferences of the store, the theme preference and the text under
\* the theme key are the same, after any toggles, submissions and resets;
\* a confirmed reset leaves all three as they were
C29_OneThemeEverywhere ==
  /\ [](booted => /\ results.preferences.theme = themePreference
                  /\ storedTheme = ThemeText(results.preferences.theme))
  /\ [][resetProgress(TRUE) =>
          /\ results'.preferences.theme = results.preferences.theme
          /\ themePreference' = themePreference
          /\ storedTheme' = storedTheme]_vars

\* C29 witness: the store was reset after a submission under a theme that
\* the toggle had set
C29_ResetUnderToggledTheme ==
  /\ booted
  /\ submits = 1
  /\ notice = ResetNotice
  /\ results.sessions = <<>>
  /\ results.preferences.theme = "light"
  /\ storedTheme = ThemeText("light")

=============================================================================
